---- MODULE Spec2Model ----
(***************************************************************************)
(* Model of async-firebase: the FCM response handlers and the message      *)
(* cleanup (utils.py), the FCMResponse / FCMBatchResponse records and the  *)
(* message dataclasses (messages.py), the APS encoder (encoders.py), the   *)
(* client's assemble_push_notification / push / push_multicast /           *)
(* _send_request (client.py), the lock-free _get_access_token (base.py)    *)
(* and the CredentialManager token refresh (_credentials.py).              *)
(***************************************************************************)
EXTENDS Integers, Sequences, FiniteSets, TLC

VARIABLES
    pc,          \* position of the client call in progress
    op,          \* "none", "push" or "multicast": the client call in progress
    credsValid,  \* AsyncFirebaseClient._credentials.valid
    ntokens,     \* len(device_tokens) of the push_multicast call
    prepared,    \* headers prepared so far in the push_multicast loop
    wire,        \* what client.post + raise_for_status produced in _send_request
    result,      \* what the client call handed to its caller (returned or raised)
    payload,     \* the call in progress was given a message with content
    assembled,   \* calls of assemble_push_notification made by the call in progress
    tasks,       \* send_each: position and outcome of the request task of every message
    completed,   \* send_each: the messages in the order their tasks ended
    cpc,         \* CredentialManager.get_access_token: position of every coroutine
    locked,      \* CredentialManager._token_lock is held
    waiters,     \* FIFO of coroutines suspended in _token_lock.acquire()
    woken,       \* the waiter whose future release() has resolved, or 0
    token,       \* CredentialManager._credentials.token, or NoToken
    expiry,      \* CredentialManager._credentials.expiry: "None", "past" or "future"
    requests,    \* token requests sent so far by get_access_token
    failures,    \* token requests that failed so far
    returned,    \* what every get_access_token call returned or raised
    heap,        \* the APNSConfig object the caller gave to the call being assembled
    msg,         \* the Message last built by the call being assembled
    encoded,     \* the apns parts of the push notifications assembled by that call
    cleanup_arg, \* cleanup_firebase_message: the argument
    cleaned      \* cleanup_firebase_message: the results of its successive applications

clientVars == <<pc, op, credsValid, ntokens, prepared, wire, result, payload, assembled>>
credVars == <<cpc, locked, waiters, woken, token, expiry, requests, failures, returned>>
eachVars == <<tasks, completed>>
msgVars == <<heap, msg, encoded>>
cleanVars == <<cleanup_arg, cleaned>>
restVars == <<credVars, eachVars, cleanVars>>
otherVars == <<restVars, msgVars>>
vars == <<clientVars, credVars, eachVars, msgVars, cleanVars>>

\* Python's None, and a key that a JSON object does not carry.
None == "None"

(***************************************************************************)
(* Bounds of the model.                                                    *)
(***************************************************************************)
MaxDetails == 2
MaxTokens == 3
NumCallers == 3
MaxListLen == 1

(***************************************************************************)
(* errors.py                                                               *)
(***************************************************************************)
FcmErrorCode ==
    { "INVALID_ARGUMENT", "FAILED_PRECONDITION", "OUT_OF_RANGE", "UNAUTHENTICATED",
      "PERMISSION_DENIED", "NOT_FOUND", "CONFLICT", "ABORTED", "ALREADY_EXISTS",
      "RESOURCE_EXHAUSTED", "CANCELLED", "DATA_LOSS", "UNKNOWN", "INTERNAL",
      "UNAVAILABLE", "DEADLINE_EXCEEDED" }

\* The code every error class passes to AsyncFirebaseError.__init__; the four
\* refined classes define no __init__ and inherit their parent's.
ErrorClassCode ==
    [ DeadlineExceededError |-> "DEADLINE_EXCEEDED",
      UnavailableError |-> "UNAVAILABLE",
      UnknownError |-> "UNKNOWN",
      UnauthenticatedError |-> "UNAUTHENTICATED",
      ThirdPartyAuthError |-> "UNAUTHENTICATED",
      ResourceExhaustedError |-> "RESOURCE_EXHAUSTED",
      QuotaExceededError |-> "RESOURCE_EXHAUSTED",
      PermissionDeniedError |-> "PERMISSION_DENIED",
      SenderIdMismatchError |-> "PERMISSION_DENIED",
      NotFoundError |-> "NOT_FOUND",
      UnregisteredError |-> "NOT_FOUND",
      InvalidArgumentError |-> "INVALID_ARGUMENT",
      FailedPreconditionError |-> "FAILED_PRECONDITION",
      OutOfRangeError |-> "OUT_OF_RANGE",
      AbortedError |-> "ABORTED",
      AlreadyExistsError |-> "ALREADY_EXISTS",
      ConflictError |-> "CONFLICT",
      CancelledError |-> "CANCELLED",
      DataLossError |-> "DATA_LOSS",
      InternalError |-> "INTERNAL" ]

\* An AsyncFirebaseError instance of class cls.
AsyncFirebaseError(cls, code, message, cause, http_response) ==
    [ cls |-> cls, code |-> code, message |-> message, cause |-> cause,
      http_response |-> http_response ]

\* The mutant gives every refined class a code of its own.
NewErrorMutOwnCode(cls, message, cause, http_response) ==
    AsyncFirebaseError(cls,
        CASE cls = "ThirdPartyAuthError" -> "THIRD_PARTY_AUTH_ERROR"
          [] cls = "QuotaExceededError" -> "QUOTA_EXCEEDED"
          [] cls = "SenderIdMismatchError" -> "SENDER_ID_MISMATCH"
          [] cls = "UnregisteredError" -> "UNREGISTERED"
          [] OTHER -> ErrorClassCode[cls],
        message, cause, http_response)

\* cls(message, cause=..., http_response=...) for a subclass of AsyncFirebaseError.
NewError(cls, message, cause, http_response) ==
    AsyncFirebaseError(cls, ErrorClassCode[cls], message, cause, http_response)

\* FCMResponse.exception is None.
NoException == [ absent |-> TRUE ]

\* An httpx.Response argument that was not given (http_response=None).
NoResponse == [ absent |-> TRUE ]

(***************************************************************************)
(* utils.py: the class-level lookup tables of FCMResponseHandlerBase       *)
(***************************************************************************)
ERROR_CODE_TO_EXCEPTION_TYPE ==
    [ INVALID_ARGUMENT |-> "InvalidArgumentError",
      FAILED_PRECONDITION |-> "FailedPreconditionError",
      OUT_OF_RANGE |-> "OutOfRangeError",
      UNAUTHENTICATED |-> "UnauthenticatedError",
      PERMISSION_DENIED |-> "PermissionDeniedError",
      NOT_FOUND |-> "NotFoundError",
      ABORTED |-> "AbortedError",
      ALREADY_EXISTS |-> "AlreadyExistsError",
      CONFLICT |-> "ConflictError",
      RESOURCE_EXHAUSTED |-> "ResourceExhaustedError",
      CANCELLED |-> "CancelledError",
      DATA_LOSS |-> "DataLossError",
      UNKNOWN |-> "UnknownError",
      INTERNAL |-> "InternalError",
      UNAVAILABLE |-> "UnavailableError",
      DEADLINE_EXCEEDED |-> "DeadlineExceededError" ]

HTTP_STATUS_TO_ERROR_CODE ==
    400 :> "INVALID_ARGUMENT" @@ 401 :> "UNAUTHENTICATED" @@ 403 :> "PERMISSION_DENIED"
    @@ 404 :> "NOT_FOUND" @@ 409 :> "CONFLICT" @@ 412 :> "FAILED_PRECONDITION"
    @@ 429 :> "RESOURCE_EXHAUSTED" @@ 500 :> "INTERNAL" @@ 503 :> "UNAVAILABLE"

FCM_ERROR_TYPES ==
    [ APNS_AUTH_ERROR |-> "ThirdPartyAuthError",
      QUOTA_EXCEEDED |-> "QuotaExceededError",
      SENDER_ID_MISMATCH |-> "SenderIdMismatchError",
      THIRD_PARTY_AUTH_ERROR |-> "ThirdPartyAuthError",
      UNREGISTERED |-> "UnregisteredError" ]

\* The "@type" value _get_fcm_error_type looks for in error.details.
FcmErrorType == "type.googleapis.com/google.firebase.fcm.v1.FcmError"

\* The message _parse_platform_error writes when the body gives none.
UnexpectedResponseMessage == "Unexpected HTTP response with status"

(***************************************************************************)
(* Python calls either return a value or raise.                            *)
(***************************************************************************)
Return(v) == [ raised |-> FALSE, value |-> v ]
Raise(exc) == [ raised |-> TRUE, value |-> exc ]

(***************************************************************************)
(* httpx.Response and httpx.HTTPError as the handlers read them.           *)
(*                                                                         *)
(* A body is what response.json() makes of response.content:               *)
(*   json = "invalid"  the content is not JSON, json() raises ValueError   *)
(*   json = "scalar"   JSON that is not an object (array, string, number,  *)
(*                     null); truthy tells bool() of the value             *)
(*   json = "object"   a JSON object with the keys `name` and `error`      *)
(* The value under `error` is absent, not an object ("scalar"), or an      *)
(* object with the keys `message`, `status` and `details`.                 *)
(***************************************************************************)
AbsentError == [ kind |-> "absent", message |-> None, status |-> None, details |-> <<>> ]
ScalarError == [ kind |-> "scalar", message |-> None, status |-> None, details |-> <<>> ]
ErrorObject(message, status, details) ==
    [ kind |-> "object", message |-> message, status |-> status, details |-> details ]

NotJson == [ json |-> "invalid", truthy |-> TRUE, name |-> None, error |-> AbsentError ]
JsonScalar(truthy) ==
    [ json |-> "scalar", truthy |-> truthy, name |-> None, error |-> AbsentError ]
JsonObject(name, error) ==
    [ json |-> "object", truthy |-> (name # None \/ error.kind # "absent"),
      name |-> name, error |-> error ]

\* fcm_response=None of FCMResponse.
NoBody == [ absent |-> TRUE ]

\* One part of a multipart/mixed body: an embedded HTTP response.
Part(status_code, body) == [ status_code |-> status_code, body |-> body ]

\* httpx.Response(status_code, content=...) with a body that is not multipart.
Response(status_code, body) ==
    [ status_code |-> status_code, content_type |-> "application/json",
      boundary |-> FALSE, body |-> body, parts |-> <<>> ]

\* A response whose content is a multipart/mixed document of the given parts;
\* such content is not JSON.
MultipartResponse(status_code, parts) ==
    [ status_code |-> status_code, content_type |-> "multipart/mixed",
      boundary |-> TRUE, body |-> NotJson, parts |-> parts ]

\* A response that announces multipart/mixed without a boundary parameter:
\* whatever its content holds, the parser cannot delimit any part.
MultipartWithoutBoundary(status_code, parts) ==
    [ status_code |-> status_code, content_type |-> "multipart/mixed",
      boundary |-> FALSE, body |-> NotJson, parts |-> parts ]

\* httpx exceptions: TimeoutException and ConnectError are TransportErrors and
\* carry no response attribute; only HTTPStatusError has one.
TimeoutExceptions == { "ConnectTimeout", "ReadTimeout" }
RequestErrors == TimeoutExceptions \cup { "ConnectError", "DecodingError" }
HTTPError(cls) == [ cls |-> cls, response |-> NoResponse ]
HTTPStatusError(response) == [ cls |-> "HTTPStatusError", response |-> response ]

(***************************************************************************)
(* messages.py: FCMResponse and FCMBatchResponse                           *)
(***************************************************************************)
\* FCMResponse.__init__ and __post_init__: message_id is
\* fcm_response.get("name") if fcm_response else None.
FCMResponse(fcm_response, exception) ==
    IF fcm_response # NoBody /\ fcm_response.json = "scalar" /\ fcm_response.truthy
    THEN Raise("AttributeError")
    ELSE Return([ fcm_response |-> fcm_response, exception |-> exception,
                  message_id |-> IF fcm_response # NoBody /\ fcm_response.truthy
                                 THEN fcm_response.name ELSE None ])

\* FCMResponse.success
success(resp) == resp.message_id # None /\ resp.exception = NoException

FCMBatchResponseMutCount(responses) ==
    [ responses |-> responses,
      success_count |->
          Cardinality({ i \in DOMAIN responses : responses[i].exception = NoException }) ]

\* FCMBatchResponse.__init__ and __post_init__
FCMBatchResponse(responses) ==
    [ responses |-> responses,
      success_count |-> Cardinality({ i \in DOMAIN responses : success(responses[i]) }) ]

\* FCMBatchResponse.failure_count
failure_count(batch) == Len(batch.responses) - batch.success_count

(***************************************************************************)
(* utils.py: FCMResponseHandlerBase                                        *)
(***************************************************************************)
_http_status_to_error_code_MutDefault(http_status_code) ==
    IF http_status_code \in DOMAIN HTTP_STATUS_TO_ERROR_CODE
    THEN HTTP_STATUS_TO_ERROR_CODE[http_status_code]
    ELSE "INTERNAL"

_http_status_to_error_code(http_status_code) ==
    IF http_status_code \in DOMAIN HTTP_STATUS_TO_ERROR_CODE
    THEN HTTP_STATUS_TO_ERROR_CODE[http_status_code]
    ELSE "UNKNOWN"

_error_code_to_exception_type(error_code) ==
    IF error_code \in DOMAIN ERROR_CODE_TO_EXCEPTION_TYPE
    THEN ERROR_CODE_TO_EXCEPTION_TYPE[error_code]
    ELSE "UnknownError"

\* data = response.json(), {} when that raises ValueError; data.get("error", {});
\* the message is synthesized when error_data.get("message") is falsy.  Calling
\* .get on a value that is not a dict raises AttributeError.
_parse_platform_error(response) ==
    LET data == IF response.body.json = "invalid"
                THEN JsonObject(None, AbsentError)
                ELSE response.body
    IN  IF data.json # "object" THEN Raise("AttributeError")
        ELSE IF data.error.kind = "scalar" THEN Raise("AttributeError")
        ELSE Return([ message |-> IF data.error.message \in { None, "" }
                                  THEN UnexpectedResponseMessage
                                  ELSE data.error.message,
                      status |-> data.error.status,
                      details |-> data.error.details ])

\* The mutant gives an errorCode outside FCM_ERROR_TYPES a refined type instead
\* of None.
_get_fcm_error_typeMutDefault(error_data) ==
    LET matching == { i \in DOMAIN error_data.details :
                        error_data.details[i].type = FcmErrorType }
        first == CHOOSE i \in matching : \A j \in matching : i <= j
        fcm_code == IF matching = {} THEN None
                    ELSE error_data.details[first].errorCode
    IN  IF fcm_code \in { None, "" } THEN None
        ELSE IF fcm_code \in DOMAIN FCM_ERROR_TYPES THEN FCM_ERROR_TYPES[fcm_code]
        ELSE "ThirdPartyAuthError"

\* The errorCode of the first detail whose "@type" is FcmErrorType (the loop
\* breaks there), looked up in FCM_ERROR_TYPES; None when there is none.
_get_fcm_error_type(error_data) ==
    IF error_data.message = None /\ error_data.status = None /\ error_data.details = <<>>
    THEN None
    ELSE LET matching == { i \in DOMAIN error_data.details :
                             error_data.details[i].type = FcmErrorType }
             first == CHOOSE i \in matching : \A j \in matching : i <= j
             fcm_code == IF matching = {} THEN None
                         ELSE error_data.details[first].errorCode
         IN  IF fcm_code \in { None, "" } THEN None
             ELSE IF fcm_code \in DOMAIN FCM_ERROR_TYPES THEN FCM_ERROR_TYPES[fcm_code]
             ELSE None

\* The mutant builds the refined error without http_response.
_handle_fcm_errorMutNoResponse(error) ==
    LET parsed == _parse_platform_error(error.response)
    IN  IF parsed.raised THEN parsed
        ELSE LET err_type == _get_fcm_error_type(parsed.value)
             IN  IF err_type # None
                 THEN Return(NewError(err_type, parsed.value.message, error, NoResponse))
                 ELSE Return(NoException)

\* Returns the refined error, or None (NoException) when there is no FCM error type.
_handle_fcm_error(error) ==
    LET parsed == _parse_platform_error(error.response)
    IN  IF parsed.raised THEN parsed
        ELSE LET err_type == _get_fcm_error_type(parsed.value)
             IN  IF err_type # None
                 THEN Return(NewError(err_type, parsed.value.message, error, error.response))
                 ELSE Return(NoException)

\* The mutant consults the numeric table first and the body's status only for
\* an HTTP status code outside the table.
_get_error_by_status_codeMutNumericFirst(error) ==
    LET parsed == _parse_platform_error(error.response)
    IN  IF parsed.raised THEN parsed
        ELSE LET code == IF error.response.status_code \in DOMAIN HTTP_STATUS_TO_ERROR_CODE
                            \/ parsed.value.status = None
                         THEN _http_status_to_error_code(error.response.status_code)
                         ELSE parsed.value.status
                 err_type == _error_code_to_exception_type(code)
             IN  Return(NewError(err_type, parsed.value.message, error, error.response))

\* error_data.get("status", <numeric fallback>): the fallback is used only when
\* the key is missing.
_get_error_by_status_code(error) ==
    LET parsed == _parse_platform_error(error.response)
    IN  IF parsed.raised THEN parsed
        ELSE LET code == IF parsed.value.status # None
                         THEN parsed.value.status
                         ELSE _http_status_to_error_code(error.response.status_code)
                 err_type == _error_code_to_exception_type(code)
             IN  Return(NewError(err_type, parsed.value.message, error, error.response))

\* The mutant tests for a missing response attribute first.
_handle_request_errorMutOrder(error) ==
    IF error.cls # "HTTPStatusError"
    THEN Return(NewError("UnknownError", "Unknown error while making a remote service call",
                         error, NoResponse))
    ELSE _get_error_by_status_code(error)

\* _handle_request_error: the isinstance tests in the order of the code, then
\* `not hasattr(error, "response")`, then the status-code classification.
_handle_request_error(error) ==
    IF error.cls \in TimeoutExceptions
    THEN Return(NewError("DeadlineExceededError", "Timed out while making an API call",
                         error, NoResponse))
    ELSE IF error.cls = "ConnectError"
    THEN Return(NewError("UnavailableError", "Failed to establish a connection",
                         error, NoResponse))
    ELSE IF error.cls # "HTTPStatusError"
    THEN Return(NewError("UnknownError", "Unknown error while making a remote service call",
                         error, NoResponse))
    ELSE _get_error_by_status_code(error)

\* The mutant tries the status-code classification before the FCM error type.
_handle_error_MutOrder(error) ==
    LET req == _handle_request_error(error)
    IN  IF req.raised THEN req ELSE FCMResponse(NoBody, req.value)

_handle_error(error) ==
    LET fcm == IF error.cls = "HTTPStatusError"
               THEN _handle_fcm_error(error)
               ELSE Return(NoException)
    IN  IF fcm.raised THEN fcm
        ELSE IF fcm.value # NoException THEN FCMResponse(NoBody, fcm.value)
        ELSE LET req == _handle_request_error(error)
             IN  IF req.raised THEN req
                 ELSE IF req.value # NoException THEN FCMResponse(NoBody, req.value)
                 ELSE FCMResponse(NoBody,
                          AsyncFirebaseError("AsyncFirebaseError", "UNKNOWN",
                              "Unexpected error has happened when hitting the FCM API",
                              error, NoResponse))

\* FCMResponse(fcm_response=response.json())
_handle_response(response) ==
    IF response.body.json = "invalid" THEN Raise("ValueError")
    ELSE FCMResponse(response.body, NoException)

(***************************************************************************)
(* utils.py: FCMResponseHandler and FCMBatchResponseHandler                *)
(***************************************************************************)
FCMResponseHandler_handle_error(error) == _handle_error(error)

FCMResponseHandler_handle_response(response) == _handle_response(response)

FCMBatchResponseHandler_handle_error(error) ==
    LET fcm_response == _handle_error(error)
    IN  IF fcm_response.raised THEN fcm_response
        ELSE Return(FCMBatchResponse(<<fcm_response.value>>))

\* The mutant looks at the content type only.
is_multipartMutContentType(response) ==
    response.content_type = "multipart/mixed"

\* mime_response.is_multipart() of the parsed document: the content type is
\* multipart, it names a boundary, and the body holds parts delimited by it.
\* In every other case FeedParser keeps the body as one string.
is_multipart(response) ==
    /\ response.content_type = "multipart/mixed"
    /\ response.boundary
    /\ Len(response.parts) > 0

\* One httpx.Response per part, in the order of the parts; json.loads of a
\* part's payload raises ValueError when the payload is not JSON.
_deserialize_batch_response(response) ==
    IF ~is_multipart(response) THEN Raise("ValueError")
    ELSE IF \E i \in DOMAIN response.parts : response.parts[i].body.json = "invalid"
    THEN Raise("ValueError")
    ELSE Return([ i \in DOMAIN response.parts |->
                    Response(response.parts[i].status_code, response.parts[i].body) ])

\* The same loop body with the failure threshold moved above 300.
HandleSingleRespMutThreshold(single_resp) ==
    IF single_resp.status_code > 300
    THEN _handle_error(HTTPStatusError(single_resp))
    ELSE _handle_response(single_resp)

\* The loop body of FCMBatchResponseHandler.handle_response.
HandleSingleResp(single_resp) ==
    IF single_resp.status_code >= 300
    THEN _handle_error(HTTPStatusError(single_resp))
    ELSE _handle_response(single_resp)

FCMBatchResponseHandler_handle_response(response) ==
    LET responses == _deserialize_batch_response(response)
    IN  IF responses.raised THEN responses
        ELSE LET outs == [ i \in DOMAIN responses.value |->
                             HandleSingleResp(responses.value[i]) ]
                 bad == { i \in DOMAIN outs : outs[i].raised }
             IN  IF bad # {}
                 THEN outs[CHOOSE i \in bad : \A j \in bad : i <= j]
                 ELSE Return(FCMBatchResponse([ i \in DOMAIN outs |-> outs[i].value ]))

(***************************************************************************)
(* The responses and errors the transport hands to the client.             *)
(***************************************************************************)
MessageIds == { "projects/p/messages/A", "projects/p/messages/B" }

ErrorMessages == { None, "", "bad token" }

\* A `status` key that is present with the JSON value null: error_data.get
\* returns it (the default is for a missing key only), and it is no key of
\* ERROR_CODE_TO_EXCEPTION_TYPE.
JsonNull == "null"

\* None stands for an error object without the `status` key.
StatusStrings == { None, JsonNull, "NOT_FOUND", "OUT_OF_RANGE", "BOGUS" }

\* Entries of error.details: FcmError entries with every provider code, with a
\* code outside FCM_ERROR_TYPES and without errorCode, and entries of another type.
DetailEntries ==
    { [ type |-> FcmErrorType, errorCode |-> c ] :
        c \in (DOMAIN FCM_ERROR_TYPES) \cup { None, "INVALID_ARGUMENT" } }
    \cup { [ type |-> "type.googleapis.com/google.rpc.BadRequest", errorCode |-> c ] :
             c \in { None, "UNREGISTERED" } }

DetailLists == UNION { [ 1..n -> DetailEntries ] : n \in 0..MaxDetails }

ErrorObjects ==
    { ErrorObject(m, s, d) : m \in ErrorMessages, s \in StatusStrings, d \in DetailLists }

Bodies ==
    { NotJson, JsonScalar(TRUE), JsonScalar(FALSE) }
    \cup { JsonObject(n, AbsentError) : n \in MessageIds \cup { None } }
    \cup { JsonObject(None, e) : e \in ErrorObjects \cup { ScalarError } }

\* Status codes raise_for_status() raises HTTPStatusError for: the codes of
\* HTTP_STATUS_TO_ERROR_CODE and two codes outside it.
ErrorStatusCodes == (DOMAIN HTTP_STATUS_TO_ERROR_CODE) \cup { 418, 502 }

\* response.raise_for_status(): a 2xx response passes, an error status raises.
raise_for_status(response) ==
    IF response.status_code \in 200..299
    THEN Return(response)
    ELSE Raise(HTTPStatusError(response))

\* What the try block of _send_request ends with for a single send: an
\* httpx.HTTPError raised by client.post or by raise_for_status, or a 2xx response.
PushWires ==
    { Raise(HTTPError(cls)) : cls \in RequestErrors }
    \cup { raise_for_status(Response(s, b)) :
             s \in ErrorStatusCodes \cup { 200 }, b \in Bodies }

\* The embedded responses of a batch: successes with and without `name`,
\* failures with a JSON error object, and bodies that are not JSON.
PartBodies ==
    { NotJson, JsonObject(None, AbsentError),
      JsonObject(None, ErrorObject("bad token", "NOT_FOUND",
          << [ type |-> FcmErrorType, errorCode |-> "UNREGISTERED" ] >>)) }
    \cup { JsonObject(n, AbsentError) : n \in MessageIds }

Parts == { Part(s, b) : s \in { 200, 300, 404 }, b \in PartBodies }

\* 2xx answers to a batch request that are not a multipart document: a JSON
\* body, multipart/mixed without a boundary parameter, and multipart/mixed
\* whose body holds no part delimited by the boundary.
MalformedBatchWires ==
    { Return(Response(200, b)) : b \in { NotJson, JsonObject(None, AbsentError) } }
    \cup { Return(MultipartWithoutBoundary(200, parts)) :
             parts \in { <<>> } \cup { << p >> : p \in Parts } }
    \cup { Return(MultipartResponse(200, <<>>)) }

\* What the try block of _send_request ends with for a batch of n messages: the
\* batch call fails as a whole, or the provider answers every message of the
\* batch with one part, in the order of the messages (the answers in parts are
\* enumerated for the batches of up to MaxTokens messages).
BatchWires(n) ==
    { Raise(HTTPError(cls)) : cls \in RequestErrors }
    \cup { Raise(HTTPStatusError(Response(s, b))) :
             s \in { 400, 503 }, b \in { NotJson, JsonObject(None, AbsentError) } }
    \cup ( IF n <= MaxTokens
           THEN { Return(MultipartResponse(200, parts)) : parts \in [ 1..n -> Parts ] }
           ELSE {} )
    \cup MalformedBatchWires

\* What the token request of _get_access_token ends with: a token response, an
\* httpx error raised by client.post, or a response without "expires_in".
TokenOutcomes == { "ok", "ConnectError", "ReadTimeout", "KeyError" }

(***************************************************************************)
(* Python values of a message: None, scalars, lists, dicts and dataclass   *)
(* instances.  A scalar is named by its literal.                           *)
(***************************************************************************)
PyNone == [ kind |-> "None" ]
Scalar(literal) == [ kind |-> "scalar", literal |-> literal ]
List(elems) == [ kind |-> "list", elems |-> elems ]
Dict(items) == [ kind |-> "dict", items |-> items ]
Dataclass(cls, fields) == [ kind |-> "dataclass", cls |-> cls, fields |-> fields ]

NoItems == [ k \in {} |-> PyNone ]
EmptyList == List(<<>>)
EmptyDict == Dict(NoItems)

\* bool(value): None, 0, False, the empty string and empty containers are
\* falsy; a dataclass instance is truthy.
Truthy(value) ==
    CASE value.kind = "None" -> FALSE
      [] value.kind = "scalar" -> value.literal \notin { "0", "False", "''" }
      [] value.kind = "list" -> value.elems # <<>>
      [] value.kind = "dict" -> DOMAIN value.items # {}
      [] OTHER -> TRUE

(***************************************************************************)
(* utils.py: remove_null_values and cleanup_firebase_message               *)
(***************************************************************************)
\* The mutant drops every falsy value (`if v`).
remove_null_valuesMutFalsy(dict_value) ==
    Dict([ k \in { k \in DOMAIN dict_value.items : Truthy(dict_value.items[k]) } |->
             dict_value.items[k] ])

\* {k: v for k, v in dict_value.items() if v not in [None, [], {}]}
remove_null_values(dict_value) ==
    Dict([ k \in { k \in DOMAIN dict_value.items :
                     dict_value.items[k] \notin { PyNone, EmptyList, EmptyDict } } |->
             dict_value.items[k] ])

RECURSIVE cleanup_firebase_message(_)

\* A dataclass instance becomes the dict of its cleaned fields without the null
\* ones, a list the list of its cleaned elements, a dict the dict of its
\* cleaned values without the null ones; anything else is copied.
cleanup_firebase_message(dataclass_obj) ==
    CASE dataclass_obj.kind = "dataclass" ->
             remove_null_values(Dict([ f \in DOMAIN dataclass_obj.fields |->
                 cleanup_firebase_message(dataclass_obj.fields[f]) ]))
      [] dataclass_obj.kind = "list" ->
             List([ i \in DOMAIN dataclass_obj.elems |->
                 cleanup_firebase_message(dataclass_obj.elems[i]) ])
      [] dataclass_obj.kind = "dict" ->
             remove_null_values(Dict([ k \in DOMAIN dataclass_obj.items |->
                 cleanup_firebase_message(dataclass_obj.items[k]) ]))
      [] OTHER -> dataclass_obj

\* The arguments cleanup_firebase_message is applied to: dicts and dataclass
\* instances (an APNSConfig stands for every dataclass) whose entries are None,
\* falsy and truthy scalars, lists, dicts and dataclass instances, nested
\* three levels deep.
Scalars == { PyNone, Scalar("0"), Scalar("False"), Scalar("''"), Scalar("'x'") }

Keys == { "a", "b" }

DictsOf(values) == { Dict(d) : d \in UNION { [ K -> values ] : K \in SUBSET Keys } }

DataclassesOf(values) ==
    { Dataclass("APNSConfig", [ headers |-> h, payload |-> p ]) : h, p \in values }

ListsOf(values) ==
    { List(l) : l \in UNION { [ 1..n -> values ] : n \in 0..MaxListLen } }

Nested == Scalars \cup ListsOf(Scalars) \cup DictsOf(Scalars) \cup DataclassesOf(Scalars)

\* cleanup_firebase_message(dataclass_obj), and again on its own result.
Cleanup ==
    /\ cleanup_arg # PyNone
    /\ cleaned = <<>>
    /\ cleaned' = << cleanup_firebase_message(cleanup_arg) >>
    /\ UNCHANGED <<cleanup_arg, clientVars, credVars, eachVars, msgVars>>

CleanupAgain ==
    /\ Len(cleaned) = 1
    /\ cleaned' = Append(cleaned, cleanup_firebase_message(cleaned[1]))
    /\ UNCHANGED <<cleanup_arg, clientVars, credVars, eachVars, msgVars>>

(***************************************************************************)
(* messages.py: the dataclasses of a push notification                     *)
(***************************************************************************)
Notification(title, body, image) ==
    Dataclass("Notification", [ title |-> title, body |-> body, image |-> image ])

ApsAlert(title, body, loc_key, loc_args, title_loc_key, title_loc_args, action_loc_key, launch_image) ==
    Dataclass("ApsAlert",
        [ title |-> title, body |-> body, loc_key |-> loc_key, loc_args |-> loc_args,
          title_loc_key |-> title_loc_key, title_loc_args |-> title_loc_args,
          action_loc_key |-> action_loc_key, launch_image |-> launch_image ])

Aps(alert, badge, sound, content_available, category, thread_id, mutable_content, custom_data) ==
    Dataclass("Aps",
        [ alert |-> alert, badge |-> badge, sound |-> sound,
          content_available |-> content_available, category |-> category,
          thread_id |-> thread_id, mutable_content |-> mutable_content,
          custom_data |-> custom_data ])

APNSPayload(aps) == Dataclass("APNSPayload", [ aps |-> aps ])

APNSConfig(headers, payload_) ==
    Dataclass("APNSConfig", [ headers |-> headers, payload |-> payload_ ])

Message(token_, data, notification, android, webpush, apns, topic, condition, fcm_options) ==
    Dataclass("Message",
        [ token |-> token_, data |-> data, notification |-> notification,
          android |-> android, webpush |-> webpush, apns |-> apns, topic |-> topic,
          condition |-> condition, fcm_options |-> fcm_options ])

PushNotification(message_, validate_only) ==
    Dataclass("PushNotification", [ message |-> message_, validate_only |-> validate_only ])

(***************************************************************************)
(* encoders.py: aps_encoder                                                *)
(***************************************************************************)
\* None for no Aps; otherwise {"aps": {...}, **custom_data}, where the alert of
\* an ApsAlert is spelled out, "mutable-content" is always 1 or 0 and
\* "content-available" is there only for `content_available is True`.
aps_encoder(aps) ==
    IF ~Truthy(aps) THEN PyNone
    ELSE LET f == aps.fields
             custom_data == IF Truthy(f.custom_data) THEN f.custom_data.items ELSE NoItems
             alert == IF f.alert.kind = "dataclass"
                      THEN Dict(  ("title" :> f.alert.fields.title)
                               @@ ("body" :> f.alert.fields.body)
                               @@ ("loc-key" :> f.alert.fields.loc_key)
                               @@ ("loc-args" :> f.alert.fields.loc_args)
                               @@ ("title-loc-key" :> f.alert.fields.title_loc_key)
                               @@ ("title-loc-args" :> f.alert.fields.title_loc_args)
                               @@ ("action-loc-key" :> f.alert.fields.action_loc_key)
                               @@ ("launch-image" :> f.alert.fields.launch_image) )
                      ELSE f.alert
             base ==    ("alert" :> alert)
                     @@ ("badge" :> f.badge)
                     @@ ("sound" :> f.sound)
                     @@ ("category" :> f.category)
                     @@ ("thread-id" :> f.thread_id)
                     @@ ("mutable-content" :>
                            Scalar(IF Truthy(f.mutable_content) THEN "1" ELSE "0"))
             aps_dict == IF f.content_available = Scalar("True")
                         THEN ("content-available" :> Scalar("1")) @@ base
                         ELSE base
         IN  Dict(custom_data @@ ("aps" :> Dict(aps_dict)))

(***************************************************************************)
(* Objects with identity: the APNSConfig the caller passes is one object,  *)
(* shared by the Message built from it until it is copied.                 *)
(***************************************************************************)
\* A reference to the object at an address of the heap.
Ref(addr) == [ kind |-> "ref", addr |-> addr ]

\* The heap of a call that was given no APNSConfig, and of one that was.
NoObjects == [ a \in {} |-> PyNone ]
CallerObject(apns) == [ a \in { "apns" } |-> apns ]

\* The mutant hands back the object itself instead of a copy.
replaceMutSameObject(heap_, obj) == [ heap |-> heap_, obj |-> obj ]

\* dataclasses.replace(obj): a new object with the field values of obj.
replace(heap_, obj) ==
    [ heap |-> [ a \in (DOMAIN heap_) \cup { "copy" } |->
                   IF a = "copy" THEN heap_[obj.addr] ELSE heap_[a] ],
      obj |-> Ref("copy") ]

(***************************************************************************)
(* client.py: AsyncFirebaseClient                                          *)
(***************************************************************************)
MULTICAST_MESSAGE_MAX_DEVICE_TOKENS == 500

\* Nothing on the wire, nothing handed to the caller yet.
Nothing == [ pending |-> TRUE ]

\* The push notification of a Message whose apns field refers to an object of
\* the heap: cleanup_firebase_message(PushNotification(message, dry_run)), then
\* `len(push_notification["message"]) == 1` raises ValueError.  A Message that
\* cleans to {} is itself removed from the dict, so that the subscript raises
\* KeyError.
cleaned_push_notification(heap_, message_, dry_run) ==
    LET apns == IF message_.fields.apns = PyNone THEN PyNone
                ELSE heap_[message_.fields.apns.addr]
        push_notification ==
            cleanup_firebase_message(PushNotification(
                Dataclass("Message", [ message_.fields EXCEPT !.apns = apns ]), dry_run))
    IN  IF "message" \notin DOMAIN push_notification.items THEN Raise("KeyError")
        ELSE IF Cardinality(DOMAIN push_notification.items["message"].items) = 1
        THEN Raise("ValueError")
        ELSE Return(push_notification)

\* assemble_push_notification(apns_config, message, dry_run): what it returns
\* or raises, and the heap it leaves.  With an APNSConfig that has a payload,
\* message.apns becomes replace(message.apns) and the payload of that object
\* becomes aps_encoder(apns_config.payload.aps); replace() of None raises
\* TypeError, and `.aps` of a payload that is a dict raises AttributeError.
assemble_push_notification(heap_, apns_config, message_, dry_run) ==
    LET config == IF apns_config = PyNone THEN PyNone ELSE heap_[apns_config.addr]
        has_apns_config == Truthy(config) /\ Truthy(config.fields.payload)
    IN  IF ~has_apns_config
        THEN [ outcome |-> cleaned_push_notification(heap_, message_, dry_run),
               heap |-> heap_ ]
        ELSE IF message_.fields.apns = PyNone
        THEN [ outcome |-> Raise("TypeError"), heap |-> heap_ ]
        ELSE LET copied == replace(heap_, message_.fields.apns)
                 payload_ == copied.heap[apns_config.addr].fields.payload
             IN  IF payload_.kind # "dataclass"
                 THEN [ outcome |-> Raise("AttributeError"), heap |-> copied.heap ]
                 ELSE LET with_payload ==
                              [ copied.heap EXCEPT ![copied.obj.addr] =
                                  Dataclass(@.cls,
                                      [ @.fields EXCEPT
                                          !.payload = aps_encoder(payload_.fields.aps) ]) ]
                          with_apns ==
                              Dataclass("Message",
                                  [ message_.fields EXCEPT !.apns = copied.obj ])
                      IN  [ outcome |->
                                cleaned_push_notification(with_payload, with_apns, dry_run),
                            heap |-> with_payload ]

\* The apns part of an assembled push notification, None when it has none.
ApnsOf(push_notification) ==
    IF "apns" \in DOMAIN push_notification.items["message"].items
    THEN push_notification.items["message"].items["apns"]
    ELSE PyNone

\* The message has content: one of data, notification, android, webpush, apns
\* and fcm_options is neither None nor empty once its null values are removed.
HasPayload(message_) ==
    \E f \in { "data", "notification", "android", "webpush", "apns", "fcm_options" } :
        cleanup_firebase_message(message_.fields[f]) \notin { PyNone, EmptyDict }

\* The arguments of push and push_multicast.
DeviceToken(i) == Scalar(ToString(i))

Targets == { PyNone, Scalar("'to'") }

DataArguments == { PyNone, Dict([ key |-> Scalar("'value'") ]) }

Notifications ==
    { PyNone,
      Notification(PyNone, PyNone, PyNone),
      Notification(Scalar("'title'"), Scalar("''"), PyNone) }

APNSConfigs ==
    { PyNone,
      APNSConfig(EmptyDict, PyNone),
      APNSConfig(EmptyDict,
          APNSPayload(Aps(Scalar("'alert'"), PyNone, PyNone, PyNone, PyNone, PyNone,
                          PyNone, EmptyDict))),
      APNSConfig(Dict([ priority |-> Scalar("'5'") ]),
          APNSPayload(Aps(ApsAlert(Scalar("'title'"), PyNone, PyNone, EmptyList, PyNone,
                                   EmptyList, PyNone, PyNone),
                          Scalar("0"), PyNone, Scalar("True"), PyNone, PyNone,
                          Scalar("True"), Dict([ custom |-> Scalar("'value'") ])))) }

\* The Message push and push_multicast build: `data or {}`, `webpush or {}`
\* (webpush is not implemented and stays None), apns is the caller's object.
BuildMessage(device_token, data, notification, apns, topic, condition) ==
    Message(device_token, IF Truthy(data) THEN data ELSE EmptyDict, notification, PyNone,
            EmptyDict, IF apns = PyNone THEN PyNone ELSE Ref("apns"), topic, condition,
            PyNone)

\* The first assemble_push_notification of a call: the call goes on to
\* `await self._prepare_headers()` when it returns and ends when it raises.
Assemble(message_, apns) ==
    LET apns_config == IF apns = PyNone THEN PyNone ELSE Ref("apns")
        objects == IF apns = PyNone THEN NoObjects ELSE CallerObject(apns)
        assembly == assemble_push_notification(objects, apns_config, message_,
                                               Scalar("False"))
    IN  /\ msg' = Dataclass("Message", [ message_.fields EXCEPT !.apns = apns ])
        /\ payload' = HasPayload(msg')
        /\ heap' = [ a \in (DOMAIN assembly.heap) \ { "copy" } |-> assembly.heap[a] ]
        /\ assembled' = 1
        /\ IF assembly.outcome.raised
           THEN pc' = "done" /\ result' = assembly.outcome /\ encoded' = {}
           ELSE /\ pc' = "headers"
                /\ result' = Nothing
                /\ encoded' = { ApnsOf(assembly.outcome.value) }

\* push: the Message is built and assembled.
Push(device_token, data, notification, apns, topic, condition) ==
    /\ pc = "idle"
    /\ op' = "push"
    /\ ntokens' = 1
    /\ prepared' = 0
    /\ wire' = Nothing
    /\ Assemble(BuildMessage(device_token, data, notification, apns, topic, condition),
                apns)
    /\ UNCHANGED <<credsValid, restVars>>

\* The mutant rejects a batch of exactly the maximum size as well.
too_manyMutOffByOne(n) == n >= MULTICAST_MESSAGE_MAX_DEVICE_TOKENS

\* len(device_tokens) > MULTICAST_MESSAGE_MAX_DEVICE_TOKENS
too_many(n) == n > MULTICAST_MESSAGE_MAX_DEVICE_TOKENS

\* The numbers of device tokens of the batches sent: small batches, a batch
\* of the maximum size and one beyond it.
TokenCounts ==
    (1..MaxTokens)
    \cup { MULTICAST_MESSAGE_MAX_DEVICE_TOKENS, MULTICAST_MESSAGE_MAX_DEVICE_TOKENS + 1 }

\* push_multicast: the length check, then the first round of the loop over
\* device_tokens assembles the first message.
PushMulticast(n, data, notification, apns) ==
    /\ pc = "idle"
    /\ op' = "multicast"
    /\ ntokens' = n
    /\ prepared' = 0
    /\ wire' = Nothing
    /\ IF too_many(n)
       THEN /\ pc' = "done"
            /\ result' = Raise("ValueError")
            /\ assembled' = 0
            /\ payload' = HasPayload(BuildMessage(DeviceToken(1), data, notification,
                                                  apns, PyNone, PyNone))
            /\ UNCHANGED msgVars
       ELSE Assemble(BuildMessage(DeviceToken(1), data, notification, apns, PyNone,
                                  PyNone), apns)
    /\ UNCHANGED <<credsValid, restVars>>

\* One `await self._prepare_headers()` is complete: push goes on to
\* _send_request, push_multicast to the next device token, whose Message is
\* built from the same arguments and assembled, or to _send_request.
HeadersPrepared ==
    /\ prepared' = prepared + 1
    /\ IF prepared + 1 >= ntokens
       THEN pc' = "send" /\ UNCHANGED <<result, assembled, msgVars>>
       ELSE LET apns_config == IF DOMAIN heap = {} THEN PyNone ELSE Ref("apns")
                next == Dataclass("Message",
                            [ msg.fields EXCEPT !.token = DeviceToken(prepared + 2),
                                                    !.apns = apns_config ])
                assembly == assemble_push_notification(heap, apns_config, next,
                                                       Scalar("False"))
            IN  /\ assembled' = assembled + 1
                /\ msg' = [ msg EXCEPT !.fields.token = DeviceToken(prepared + 2) ]
                /\ heap' = [ a \in (DOMAIN assembly.heap) \ { "copy" } |->
                               assembly.heap[a] ]
                /\ IF assembly.outcome.raised
                   THEN pc' = "done" /\ result' = assembly.outcome /\ UNCHANGED encoded
                   ELSE /\ pc' = "headers"
                        /\ encoded' = encoded \cup { ApnsOf(assembly.outcome.value) }
                        /\ UNCHANGED result
    /\ UNCHANGED <<op, ntokens, wire, payload>>

\* _prepare_headers -> _get_access_token with valid credentials.
PrepareHeaders ==
    /\ pc = "headers"
    /\ credsValid
    /\ HeadersPrepared
    /\ UNCHANGED <<credsValid, restVars>>

\* _prepare_headers -> _get_access_token with credentials that are not valid:
\* the token request.  Its exceptions leave push / push_multicast uncaught.
RefreshToken(outcome) ==
    /\ pc = "headers"
    /\ ~credsValid
    /\ IF outcome = "ok"
       THEN credsValid' = TRUE /\ HeadersPrepared
       ELSE /\ pc' = "done"
            /\ result' = Raise(outcome)
            /\ UNCHANGED <<credsValid, op, ntokens, prepared, wire, payload, assembled,
                           msgVars>>
    /\ UNCHANGED restVars

\* push / push_multicast call _send_request with the assembled payload: the
\* request is built, the assembly is over and its objects are followed no
\* further.
SendRequest ==
    /\ pc = "send"
    /\ pc' = "post"
    /\ heap' = NoObjects
    /\ msg' = Nothing
    /\ encoded' = {}
    /\ UNCHANGED <<op, credsValid, ntokens, prepared, wire, result, payload, assembled,
                   restVars>>

\* _send_request: client.post(...) and raw_fcm_response.raise_for_status().
Post(w) ==
    /\ pc = "post"
    /\ wire' = w
    /\ pc' = "handle"
    /\ UNCHANGED <<op, credsValid, ntokens, prepared, result, payload, assembled, otherVars>>

\* _send_request: `except httpx.HTTPError as exc` and `else`, then the return
\* to push / push_multicast, which hand the response to the caller.
Handle ==
    /\ pc = "handle"
    /\ result' = IF op = "push"
                 THEN IF wire.raised
                      THEN FCMResponseHandler_handle_error(wire.value)
                      ELSE FCMResponseHandler_handle_response(wire.value)
                 ELSE IF wire.raised
                      THEN FCMBatchResponseHandler_handle_error(wire.value)
                      ELSE FCMBatchResponseHandler_handle_response(wire.value)
    /\ pc' = "done"
    /\ UNCHANGED <<op, credsValid, ntokens, prepared, wire, payload, assembled, otherVars>>

\* The call is over; the client is ready for the next one.
Finish ==
    /\ pc = "done"
    /\ pc' = "idle"
    /\ op' = "none"
    /\ ntokens' = 0
    /\ prepared' = 0
    /\ wire' = Nothing
    /\ result' = Nothing
    /\ payload' = FALSE
    /\ assembled' = 0
    /\ heap' = NoObjects
    /\ msg' = Nothing
    /\ encoded' = {}
    /\ UNCHANGED <<credsValid, restVars>>

\* The access token expires between two calls.
TokenExpires ==
    /\ pc = "idle"
    /\ credsValid
    /\ credsValid' = FALSE
    /\ UNCHANGED <<pc, op, ntokens, prepared, wire, result, payload, assembled, otherVars>>

(***************************************************************************)
(* send_each: one request task per message, run concurrently and gathered. *)
(* Every task is AsyncClientBase.send_request -> _send_request (base.py)    *)
(* with an FCMResponseHandler and no headers, so that prepare_headers runs *)
(* inside the try block of _send_request.                                  *)
(***************************************************************************)
\* The name the provider gives the message sent for item i.
ItemNames ==
    << "projects/p/messages/1", "projects/p/messages/2", "projects/p/messages/3",
       "projects/p/messages/4", "projects/p/messages/5" >>

\* What client.post + raise_for_status end with for the request of item i: the
\* message is accepted, the body of a 2xx response is not JSON, the request
\* times out, the provider answers with an error status (body not JSON, an
\* UNREGISTERED error object, a JSON body that is not an object).
ItemWires(i) ==
    { Return(Response(200, JsonObject(ItemNames[i], AbsentError))),
      Return(Response(200, NotJson)),
      Raise(HTTPError("ReadTimeout")),
      Raise(HTTPStatusError(Response(500, NotJson))),
      Raise(HTTPStatusError(Response(404,
          JsonObject(None, ErrorObject("bad token", "NOT_FOUND",
              << [ type |-> FcmErrorType, errorCode |-> "UNREGISTERED" ] >>))))),
      Raise(HTTPStatusError(Response(400, JsonScalar(TRUE)))) }

\* A request task: where it is suspended and what it ended with.
Task(at, outcome) == [ at |-> at, outcome |-> outcome ]

\* The task of item i ends with outcome.
TaskEnds(i, outcome) ==
    /\ tasks' = [ tasks EXCEPT ![i] = Task("done", outcome) ]
    /\ completed' = Append(completed, i)

\* The results of the gathered tasks, one per message.  In the mutant they
\* come in the order in which the tasks ended.
gatherMutCompletionOrder(ts, order) ==
    [ k \in DOMAIN ts |-> ts[order[k]].outcome ]

\* The results of the gathered tasks: result i is the one of task i, whatever
\* the order in which the tasks ended.
gather(ts, order) ==
    [ i \in DOMAIN ts |-> ts[i].outcome ]

\* The outcome the aggregator records for one gathered result.  In the mutant
\* an exception that a task raised is handed on as it is.
aggregateMutNoWrap(gathered) ==
    gathered

\* The outcome the aggregator records for one gathered result: an exception
\* that a task raised becomes a failure of kind UNKNOWN.
aggregate(gathered) ==
    IF gathered.raised
    THEN FCMResponse(NoBody,
             NewError("UnknownError", "Unexpected error while sending the message",
                      [ cls |-> gathered.value, response |-> NoResponse ], NoResponse))
    ELSE gathered

\* What send_each hands to its caller: the batch of the recorded outcomes, or
\* the first exception among them.
SendEachResult(outs) ==
    LET bad == { i \in DOMAIN outs : outs[i].raised }
    IN  IF bad # {}
        THEN outs[CHOOSE i \in bad : \A j \in bad : i <= j]
        ELSE Return(FCMBatchResponse([ i \in DOMAIN outs |-> outs[i].value ]))

\* send_each(messages) with n messages: the tasks are created and each runs up
\* to its first await, the token request when the credentials are not valid
\* and the FCM request otherwise.
SendEach(n) ==
    /\ pc = "idle"
    /\ op' = "send_each"
    /\ pc' = "gather"
    /\ ntokens' = n
    /\ payload' = TRUE
    /\ assembled' = n
    /\ tasks' = [ i \in 1..n |-> Task(IF credsValid THEN "post" ELSE "token", Nothing) ]
    /\ completed' = <<>>
    /\ UNCHANGED <<credsValid, prepared, wire, result, credVars, msgVars, cleanVars>>

\* _get_access_token (base.py) of task i after its token request.  An httpx
\* error is caught by `except httpx.HTTPError` of _send_request; a response
\* without the expected keys raises KeyError, which is not.
TaskTokenResponse(i, outcome) ==
    /\ pc = "gather"
    /\ i \in DOMAIN tasks
    /\ tasks[i].at = "token"
    /\ IF outcome = "ok"
       THEN /\ credsValid' = TRUE
            /\ tasks' = [ tasks EXCEPT ![i] = Task("post", Nothing) ]
            /\ UNCHANGED completed
       ELSE /\ TaskEnds(i, IF outcome \in RequestErrors
                           THEN FCMResponseHandler_handle_error(HTTPError(outcome))
                           ELSE Raise(outcome))
            /\ UNCHANGED credsValid
    /\ UNCHANGED <<pc, op, ntokens, prepared, wire, result, payload, assembled, credVars,
                   msgVars, cleanVars>>

\* _send_request (base.py) of task i after client.post: raise_for_status, then
\* handle_error or handle_response.
TaskPost(i, w) ==
    /\ pc = "gather"
    /\ i \in DOMAIN tasks
    /\ tasks[i].at = "post"
    /\ TaskEnds(i, IF w.raised
                   THEN FCMResponseHandler_handle_error(w.value)
                   ELSE FCMResponseHandler_handle_response(w.value))
    /\ UNCHANGED <<clientVars, credVars, msgVars, cleanVars>>

\* All tasks have ended: send_each returns the batch of their outcomes.
Gather ==
    /\ pc = "gather"
    /\ \A i \in DOMAIN tasks : tasks[i].at = "done"
    /\ result' = SendEachResult([ i \in DOMAIN tasks |->
                                    aggregate(gather(tasks, completed)[i]) ])
    /\ pc' = "done"
    /\ UNCHANGED <<op, credsValid, ntokens, prepared, wire, payload, assembled, eachVars,
                   credVars, msgVars, cleanVars>>

\* The send_each call is over; the client is ready for the next one.
FinishEach ==
    /\ pc = "done"
    /\ op = "send_each"
    /\ pc' = "idle"
    /\ op' = "none"
    /\ ntokens' = 0
    /\ result' = Nothing
    /\ payload' = FALSE
    /\ assembled' = 0
    /\ tasks' = <<>>
    /\ completed' = <<>>
    /\ UNCHANGED <<credsValid, prepared, wire, credVars, msgVars, cleanVars>>

(***************************************************************************)
(* Topic management: subscribe / unsubscribe of device tokens.  The request *)
(* is AsyncClientBase.send_iid_request -> _send_request (base.py) and the  *)
(* result a TopicManagementResponse (messages.py).                         *)
(***************************************************************************)
\* One entry of the `results` array: {} or {"error": reason}.
TopicOk == [ has_error |-> FALSE, error |-> None ]
TopicError(reason) == [ has_error |-> TRUE, error |-> reason ]
TopicEntries == { TopicOk, TopicError("INVALID_ARGUMENT"), TopicError("NOT_FOUND") }

\* A JSON object body with a `results` array, and one without the key.
TopicResults(results) == [ json |-> "object", has_results |-> TRUE, results |-> results ]
TopicNoResults == [ json |-> "object", has_results |-> FALSE, results |-> <<>> ]

\* TopicManagementResponse(resp=None, exception=...): no response to decode.
NoResp == [ absent |-> TRUE ]

\* The errors list the loop of _handle_response builds: one
\* TopicManagementErrorInfo(index, reason) per entry with an `error` key, index
\* counted from 0 by enumerate.  In the mutant the index is counted from 1.
TopicErrorsMutIndex(results) ==
    LET failing == SelectSeq([ i \in 1..Len(results) |-> i ],
                             LAMBDA i : results[i].has_error)
    IN  [ k \in 1..Len(failing) |->
            [ index |-> failing[k], reason |-> results[failing[k]].error ] ]

TopicErrors(results) ==
    LET failing == SelectSeq([ i \in 1..Len(results) |-> i ],
                             LAMBDA i : results[i].has_error)
    IN  [ k \in 1..Len(failing) |->
            [ index |-> failing[k] - 1, reason |-> results[failing[k]].error ] ]

\* `if not results`: the key is missing or the array is empty.  The mutant
\* tests `results is None` only.
not_resultsMutNone(body) ==
    ~body.has_results

not_results(body) ==
    ~body.has_results \/ body.results = <<>>

\* TopicManagementResponse.__post_init__ and _handle_response: with a response,
\* resp.json() (ValueError when the body is not JSON), response.get("results")
\* (AttributeError when the body is not an object), ValueError when there are
\* no results, then the counting loop; without a response the counts stay 0.
TopicManagementResponse(resp, exception) ==
    IF resp = NoResp
    THEN Return([ resp |-> resp, exception |-> exception,
                  success_count |-> 0, failure_count |-> 0, errors |-> <<>> ])
    ELSE IF resp.body.json = "invalid" THEN Raise("ValueError")
    ELSE IF resp.body.json = "scalar" THEN Raise("AttributeError")
    ELSE IF not_results(resp.body) THEN Raise("ValueError")
    ELSE LET errors == TopicErrors(resp.body.results)
         IN  Return([ resp |-> resp, exception |-> exception,
                      success_count |-> Len(resp.body.results) - Len(errors),
                      failure_count |-> Len(errors),
                      errors |-> errors ])

\* TopicManagementResponseHandler.handle_error: the error is classified as for
\* a send and handed back in a TopicManagementResponse.
TopicManagementResponseHandler_handle_error(error) ==
    LET fcm_response == _handle_error(error)
    IN  IF fcm_response.raised THEN fcm_response
        ELSE TopicManagementResponse(NoResp, fcm_response.value.exception)

\* TopicManagementResponseHandler.handle_response.
TopicManagementResponseHandler_handle_response(response) ==
    TopicManagementResponse(response, NoException)

\* What the try block of _send_request ends with for a topic request of n
\* tokens: an httpx error, a 2xx response that is not JSON or not an object, a
\* JSON object without results or with none, or one entry per token.
TopicWires(n) ==
    { Raise(HTTPError(cls)) : cls \in { "ReadTimeout", "ConnectError" } }
    \cup { Raise(HTTPStatusError(Response(401,
               JsonObject(None, ErrorObject("bad credentials", "UNAUTHENTICATED", <<>>))))),
           Raise(HTTPStatusError(Response(503, NotJson))) }
    \cup { Return(Response(200, b)) :
             b \in { NotJson, JsonScalar(TRUE), TopicNoResults, TopicResults(<<>>) } }
    \cup { Return(Response(200, TopicResults(results))) : results \in [ 1..n -> TopicEntries ] }

\* subscribe_devices_to_topic / unsubscribe_devices_from_topic with n device
\* tokens: send_iid_request goes on to `await self.prepare_headers()`.
TopicManagement(n) ==
    /\ pc = "idle"
    /\ op' = "topic"
    /\ pc' = "headers"
    /\ ntokens' = n
    /\ payload' = TRUE
    /\ UNCHANGED <<credsValid, prepared, wire, result, assembled, otherVars>>

\* send_iid_request: `headers or await self.prepare_headers()` before
\* _send_request, outside its try block; the token request is sent when the
\* credentials are not valid and its exceptions leave send_iid_request.
TopicPrepareHeaders(outcome) ==
    /\ pc = "headers"
    /\ op = "topic"
    /\ IF credsValid
       THEN outcome = "ok" /\ pc' = "post" /\ UNCHANGED <<credsValid, result>>
       ELSE IF outcome = "ok"
       THEN credsValid' = TRUE /\ pc' = "post" /\ UNCHANGED result
       ELSE pc' = "done" /\ result' = Raise(outcome) /\ UNCHANGED credsValid
    /\ UNCHANGED <<op, ntokens, prepared, wire, payload, assembled, otherVars>>

\* _send_request (base.py) with the TopicManagementResponseHandler:
\* handle_error or handle_response, then the return to the caller.
TopicHandle ==
    /\ pc = "handle"
    /\ op = "topic"
    /\ result' = IF wire.raised
                 THEN TopicManagementResponseHandler_handle_error(wire.value)
                 ELSE TopicManagementResponseHandler_handle_response(wire.value)
    /\ pc' = "done"
    /\ UNCHANGED <<op, credsValid, ntokens, prepared, wire, payload, assembled, otherVars>>

(***************************************************************************)
(* _credentials.py: CredentialManager.get_access_token, called by          *)
(* NumCallers coroutines of one event loop.  A coroutine runs without      *)
(* interruption from one await to the next.                                *)
(***************************************************************************)
Callers == 1..NumCallers

\* credentials.token is None.
NoToken == [ absent |-> TRUE ]

\* The access_token of the n-th token response; 0 is a token from before.
AccessToken(n) == [ access_token |-> n ]

\* service_account.Credentials.valid: a token is set and it has not expired.
valid == token # NoToken /\ expiry # "past"

\* What `await http_client.post(...)` and the lines after it end with: a token
\* response with both keys, an httpx error, a body that is not JSON, a response
\* without "expires_in", a response without "access_token".
RefreshOutcomes == { "ok", "ConnectError", "ValueError", "no_expires_in", "no_access_token" }

\* _token_lock.release(): the lock is free and the future of the first waiter
\* is resolved; that waiter stays in the queue until it runs.
ReleaseLock(queue) ==
    /\ locked' = FALSE
    /\ woken' = IF queue = <<>> THEN 0 ELSE Head(queue)

\* The body of `async with self._token_lock`, run by c once it holds the lock,
\* up to its first await: the second check of credentials.valid, then the
\* token request.
LockedSectionMutNoRecheck(c, queue) ==
    /\ cpc' = [ cpc EXCEPT ![c] = "posting" ]
    /\ requests' = requests + 1
    /\ locked' = TRUE
    /\ woken' = 0
    /\ UNCHANGED returned

LockedSection(c, queue) ==
    IF valid
    THEN /\ cpc' = [ cpc EXCEPT ![c] = "done" ]
         /\ returned' = [ returned EXCEPT ![c] = Return(token) ]
         /\ ReleaseLock(queue)
         /\ UNCHANGED requests
    ELSE /\ cpc' = [ cpc EXCEPT ![c] = "posting" ]
         /\ requests' = requests + 1
         /\ locked' = TRUE
         /\ woken' = 0
         /\ UNCHANGED returned

\* get_access_token up to its first suspension: the first check of
\* credentials.valid, then _token_lock.acquire(), which takes a free lock
\* nobody waits for at once and else queues the coroutine.
GetAccessToken(c) ==
    /\ cpc[c] = "idle"
    /\ IF valid
       THEN /\ cpc' = [ cpc EXCEPT ![c] = "done" ]
            /\ returned' = [ returned EXCEPT ![c] = Return(token) ]
            /\ UNCHANGED <<locked, waiters, woken, requests>>
       ELSE IF ~locked /\ waiters = <<>>
       THEN LockedSection(c, waiters) /\ UNCHANGED waiters
       ELSE /\ cpc' = [ cpc EXCEPT ![c] = "waiting" ]
            /\ waiters' = Append(waiters, c)
            /\ UNCHANGED <<locked, woken, requests, returned>>
    /\ UNCHANGED <<token, expiry, failures, clientVars, eachVars, msgVars, cleanVars>>

\* The waiter woken by release() runs: it leaves the queue, takes the lock and
\* enters the locked section.
LockAcquired(c) ==
    /\ cpc[c] = "waiting"
    /\ woken = c
    /\ waiters' = Tail(waiters)
    /\ LockedSection(c, Tail(waiters))
    /\ UNCHANGED <<token, expiry, failures, clientVars, eachVars, msgVars, cleanVars>>

\* The mutant releases the lock only when the refresh succeeds.
TokenResponseMutNoRelease(c, outcome) ==
    /\ cpc[c] = "posting"
    /\ cpc' = [ cpc EXCEPT ![c] = "done" ]
    /\ expiry' = IF outcome \in { "ok", "no_access_token" } THEN "future" ELSE expiry
    /\ token' = IF outcome = "ok" THEN AccessToken(requests) ELSE token
    /\ returned' = [ returned EXCEPT ![c] =
                       IF outcome = "ok" THEN Return(AccessToken(requests))
                       ELSE IF outcome \in { "no_expires_in", "no_access_token" }
                       THEN Raise("KeyError")
                       ELSE Raise(outcome) ]
    /\ failures' = IF outcome = "ok" THEN failures ELSE failures + 1
    /\ IF outcome = "ok" THEN ReleaseLock(waiters) ELSE UNCHANGED <<locked, woken>>
    /\ UNCHANGED <<waiters, requests, clientVars, eachVars, msgVars, cleanVars>>

\* The token request of c is over.  expiry is assigned before token, and each
\* reads its key of the response: a missing key raises KeyError at that line.
\* Leaving the `async with` block, by return or by exception, releases the lock.
TokenResponse(c, outcome) ==
    /\ cpc[c] = "posting"
    /\ cpc' = [ cpc EXCEPT ![c] = "done" ]
    /\ expiry' = IF outcome \in { "ok", "no_access_token" } THEN "future" ELSE expiry
    /\ token' = IF outcome = "ok" THEN AccessToken(requests) ELSE token
    /\ returned' = [ returned EXCEPT ![c] =
                       IF outcome = "ok" THEN Return(AccessToken(requests))
                       ELSE IF outcome \in { "no_expires_in", "no_access_token" }
                       THEN Raise("KeyError")
                       ELSE Raise(outcome) ]
    /\ failures' = IF outcome = "ok" THEN failures ELSE failures + 1
    /\ ReleaseLock(waiters)
    /\ UNCHANGED <<waiters, requests, clientVars, eachVars, msgVars, cleanVars>>

(***************************************************************************)
(* base.py / client.py: _get_access_token, which takes no lock             *)
(***************************************************************************)
\* _get_access_token up to its first await: valid credentials return their
\* token, otherwise the token request is sent.
BaseGetAccessToken(c) ==
    /\ cpc[c] = "idle"
    /\ IF valid
       THEN /\ cpc' = [ cpc EXCEPT ![c] = "done" ]
            /\ returned' = [ returned EXCEPT ![c] = Return(token) ]
            /\ UNCHANGED requests
       ELSE /\ cpc' = [ cpc EXCEPT ![c] = "posting" ]
            /\ requests' = requests + 1
            /\ UNCHANGED returned
    /\ UNCHANGED <<locked, waiters, woken, token, expiry, failures, clientVars, eachVars,
                   msgVars, cleanVars>>

\* The token request of c is over: response.json(), then expiry and token are
\* assigned from the keys of the response, in this order.
BaseTokenResponse(c, n, outcome) ==
    /\ cpc[c] = "posting"
    /\ cpc' = [ cpc EXCEPT ![c] = "done" ]
    /\ expiry' = IF outcome \in { "ok", "no_access_token" } THEN "future" ELSE expiry
    /\ token' = IF outcome = "ok" THEN AccessToken(n) ELSE token
    /\ returned' = [ returned EXCEPT ![c] =
                       IF outcome = "ok" THEN Return(AccessToken(n))
                       ELSE IF outcome \in { "no_expires_in", "no_access_token" }
                       THEN Raise("KeyError")
                       ELSE Raise(outcome) ]
    /\ failures' = IF outcome = "ok" THEN failures ELSE failures + 1
    /\ UNCHANGED <<locked, waiters, woken, requests, clientVars, eachVars, msgVars,
                   cleanVars>>

(***************************************************************************)
(* Specifications                                                          *)
(***************************************************************************)
Init ==
    /\ pc = "idle"
    /\ op = "none"
    /\ credsValid = FALSE
    /\ ntokens = 0
    /\ prepared = 0
    /\ wire = Nothing
    /\ result = Nothing
    /\ payload = FALSE
    /\ assembled = 0
    /\ heap = NoObjects
    /\ msg = Nothing
    /\ encoded = {}
    /\ cleanup_arg = PyNone
    /\ cleaned = <<>>
    /\ tasks = <<>>
    /\ completed = <<>>
    /\ cpc = [ c \in Callers |-> "idle" ]
    /\ locked = FALSE
    /\ waiters = <<>>
    /\ woken = 0
    /\ token = NoToken
    /\ expiry = "None"
    /\ requests = 0
    /\ failures = 0
    /\ returned = [ c \in Callers |-> Nothing ]

\* The client sends single messages and batches, one call at a time.
Next ==
    \/ \E device_token \in Targets, data \in DataArguments, notification \in Notifications,
          apns \in APNSConfigs, topic \in Targets, condition \in Targets :
           Push(device_token, data, notification, apns, topic, condition)
    \/ \E n \in TokenCounts, data \in DataArguments, apns \in APNSConfigs :
           PushMulticast(n, data, PyNone, apns)
    \/ PrepareHeaders
    \/ \E outcome \in TokenOutcomes : RefreshToken(outcome)
    \/ SendRequest
    \/ pc = "post" /\ op = "push" /\ \E w \in PushWires : Post(w)
    \/ pc = "post" /\ op = "multicast" /\ \E w \in BatchWires(ntokens) : Post(w)
    \/ Handle
    \/ Finish
    \/ TokenExpires

Spec == Init /\ [][Next]_vars

\* The credentials of the CredentialManager are fresh (no token yet), expired,
\* or still valid when the coroutines start.
InitCred ==
    /\ pc = "idle"
    /\ op = "none"
    /\ credsValid = FALSE
    /\ ntokens = 0
    /\ prepared = 0
    /\ wire = Nothing
    /\ result = Nothing
    /\ payload = FALSE
    /\ assembled = 0
    /\ heap = NoObjects
    /\ msg = Nothing
    /\ encoded = {}
    /\ cleanup_arg = PyNone
    /\ cleaned = <<>>
    /\ tasks = <<>>
    /\ completed = <<>>
    /\ cpc = [ c \in Callers |-> "idle" ]
    /\ locked = FALSE
    /\ waiters = <<>>
    /\ woken = 0
    /\ \/ token = NoToken /\ expiry = "None"
       \/ token = AccessToken(0) /\ expiry \in { "past", "future" }
    /\ requests = 0
    /\ failures = 0
    /\ returned = [ c \in Callers |-> Nothing ]

\* cleanup_firebase_message applied to every argument of the bounded sets.
InitCleanup ==
    /\ pc = "idle"
    /\ op = "none"
    /\ credsValid = FALSE
    /\ ntokens = 0
    /\ prepared = 0
    /\ wire = Nothing
    /\ result = Nothing
    /\ payload = FALSE
    /\ assembled = 0
    /\ heap = NoObjects
    /\ msg = Nothing
    /\ encoded = {}
    /\ \/ cleanup_arg \in DictsOf(Nested)
       \/ cleanup_arg \in DataclassesOf(Nested)
       \/ \E v \in DictsOf(Scalars) \cup DataclassesOf(Scalars) :
              cleanup_arg \in DictsOf({ Dict([ a |-> v ]), List(<< v >>) })
    /\ cleaned = <<>>
    /\ tasks = <<>>
    /\ completed = <<>>
    /\ cpc = [ c \in Callers |-> "idle" ]
    /\ locked = FALSE
    /\ waiters = <<>>
    /\ woken = 0
    /\ token = NoToken
    /\ expiry = "None"
    /\ requests = 0
    /\ failures = 0
    /\ returned = [ c \in Callers |-> Nothing ]

NextCleanup ==
    \/ Cleanup
    \/ CleanupAgain

SpecCleanup == InitCleanup /\ [][NextCleanup]_vars

\* Coroutines call CredentialManager.get_access_token concurrently.
NextCred ==
    \/ \E c \in Callers : GetAccessToken(c)
    \/ \E c \in Callers : LockAcquired(c)
    \/ \E c \in Callers, outcome \in RefreshOutcomes : TokenResponse(c, outcome)

SpecCred == InitCred /\ [][NextCred]_vars

\* Coroutines call AsyncClientBase._get_access_token concurrently; the token
\* endpoint numbers the tokens it hands out.
NextBaseToken ==
    \/ \E c \in Callers : BaseGetAccessToken(c)
    \/ \E c \in Callers, outcome \in RefreshOutcomes :
           BaseTokenResponse(c, requests, outcome)

SpecBaseToken == InitCred /\ [][NextBaseToken]_vars

\* Fair scheduling: the event loop runs every coroutine that is ready, so the
\* waiter woken by release() does run, and every token request terminates.
SpecCredFair ==
    /\ InitCred
    /\ [][NextCred]_vars
    /\ \A c \in Callers :
           /\ WF_vars(LockAcquired(c))
           /\ WF_vars(\E outcome \in RefreshOutcomes : TokenResponse(c, outcome))

\* The client sends batches with send_each, one call at a time.
NextEach ==
    \/ \E n \in 1..MaxTokens : SendEach(n)
    \/ \E i \in 1..MaxTokens, outcome \in TokenOutcomes : TaskTokenResponse(i, outcome)
    \/ \E i \in 1..MaxTokens : i \in DOMAIN tasks /\ \E w \in ItemWires(i) : TaskPost(i, w)
    \/ Gather
    \/ FinishEach
    \/ TokenExpires

SpecEach == Init /\ [][NextEach]_vars

\* The client subscribes and unsubscribes device tokens, one call at a time.
NextTopic ==
    \/ \E n \in 1..MaxTokens : TopicManagement(n)
    \/ \E outcome \in TokenOutcomes : TopicPrepareHeaders(outcome)
    \/ pc = "post" /\ op = "topic" /\ \E w \in TopicWires(ntokens) : Post(w)
    \/ TopicHandle
    \/ Finish
    \/ TokenExpires

SpecTopic == Init /\ [][NextTopic]_vars

(***************************************************************************)
(* Properties.  A finished call is read off pc = "done": wire is what the  *)
(* transport produced, result what the caller got.                         *)
(***************************************************************************)
\* A single send whose request failed with an HTTP status error.
PushStatusError ==
    /\ pc = "done"
    /\ op = "push"
    /\ wire # Nothing
    /\ wire.raised
    /\ wire.value.cls = "HTTPStatusError"

\* The details of the error object of a body; empty when there is none.
DetailsOf(body) ==
    IF body.json = "object" /\ body.error.kind = "object" THEN body.error.details ELSE <<>>

\* The positions of the FcmError entries whose errorCode is in the provider table.
ProviderEntries(details) ==
    { i \in DOMAIN details :
        /\ details[i].type = FcmErrorType
        /\ details[i].errorCode \in
               { "APNS_AUTH_ERROR", "THIRD_PARTY_AUTH_ERROR", "QUOTA_EXCEEDED",
                 "SENDER_ID_MISMATCH", "UNREGISTERED" } }

\* The provider table as the claim gives it.
RefinedClass(errorCode) ==
    CASE errorCode = "APNS_AUTH_ERROR" -> "ThirdPartyAuthError"
      [] errorCode = "THIRD_PARTY_AUTH_ERROR" -> "ThirdPartyAuthError"
      [] errorCode = "QUOTA_EXCEEDED" -> "QuotaExceededError"
      [] errorCode = "SENDER_ID_MISMATCH" -> "SenderIdMismatchError"
      [] errorCode = "UNREGISTERED" -> "UnregisteredError"

RefinedClasses ==
    { "ThirdPartyAuthError", "QuotaExceededError", "SenderIdMismatchError",
      "UnregisteredError" }

\* C1 as stated: whenever the error body has some details entry with the FcmError
\* discriminator and an errorCode of the provider table, handle_error returns
\* the refined error of such an entry.  It fails when an earlier FcmError entry
\* carries another errorCode: the scan stops at the first FcmError entry.
C1_AnyProviderEntry ==
    PushStatusError =>
        LET details == DetailsOf(wire.value.response.body)
        IN  ProviderEntries(details) # {} =>
                /\ ~result.raised
                /\ \E i \in ProviderEntries(details) :
                       result.value.exception.cls = RefinedClass(details[i].errorCode)

\* C1 amended: provider precedence.  Whenever the FIRST details entry with the
\* FcmError discriminator has an errorCode of the provider table, handle_error
\* returns that code's refined error, whatever the HTTP status code and the
\* body's status string are; and a refined error is returned in no other case,
\* so status-code classification decides only when the provider classifier
\* yields nothing.
C1_ProviderPrecedence ==
    PushStatusError =>
        LET details == DetailsOf(wire.value.response.body)
            fcm == { i \in DOMAIN details : details[i].type = FcmErrorType }
            first == CHOOSE i \in fcm : \A j \in fcm : i <= j
            applies == fcm # {} /\ first \in ProviderEntries(details)
        IN  /\ applies =>
                /\ ~result.raised
                /\ result.value.exception.cls = RefinedClass(details[first].errorCode)
                /\ result.value.message_id = None
            /\ (~applies /\ ~result.raised) =>
                   result.value.exception.cls \notin RefinedClasses

\* C1 witness: a 500 response whose body says status OUT_OF_RANGE and whose
\* second details entry is the FcmError entry UNREGISTERED was classified as
\* UnregisteredError.
C1_Witness ==
    /\ PushStatusError
    /\ wire.value.response.status_code = 500
    /\ wire.value.response.body.json = "object"
    /\ wire.value.response.body.error.status = "OUT_OF_RANGE"
    /\ Len(wire.value.response.body.error.details) = 2
    /\ wire.value.response.body.error.details[1].type # FcmErrorType
    /\ wire.value.response.body.error.details[2].errorCode = "UNREGISTERED"
    /\ ~result.raised
    /\ result.value.exception.cls = "UnregisteredError"

\* The table of status codes as the claim gives it.
TableKind(status_code) ==
    CASE status_code = 400 -> "INVALID_ARGUMENT"
      [] status_code = 401 -> "UNAUTHENTICATED"
      [] status_code = 403 -> "PERMISSION_DENIED"
      [] status_code = 404 -> "NOT_FOUND"
      [] status_code = 409 -> "CONFLICT"
      [] status_code = 412 -> "FAILED_PRECONDITION"
      [] status_code = 429 -> "RESOURCE_EXHAUSTED"
      [] status_code = 500 -> "INTERNAL"
      [] status_code = 503 -> "UNAVAILABLE"
      [] OTHER -> "UNKNOWN"

\* The body carries no `status` field: it is not JSON, or an object without
\* `error`, or its error object has no `status`.
NoStatusField(body) ==
    \/ body.json = "invalid"
    \/ body.json = "object" /\ body.error.kind = "absent"
    \/ body.json = "object" /\ body.error.kind = "object" /\ body.error.status = None

\* C2: classifier totality.  For every HTTP status error whose body carries no
\* status field, the error of the status-code classifier
\* (_get_error_by_status_code) has the kind the fixed table gives for the HTTP
\* status code, UNKNOWN outside the table; and handle_error returns an error of
\* that kind whenever the status-code classifier decides (no refined provider
\* error applies).
C2_ClassifierTotality ==
    (PushStatusError /\ NoStatusField(wire.value.response.body)) =>
        LET classified == _get_error_by_status_code(wire.value)
            kind == TableKind(wire.value.response.status_code)
        IN  /\ ~classified.raised
            /\ classified.value.code = kind
            /\ classified.value.cls = ERROR_CODE_TO_EXCEPTION_TYPE[kind]
            /\ ~result.raised
            /\ result.value.exception.cls \notin RefinedClasses =>
                   result.value.exception.code = kind

\* C2 witness: a 418 response with a body that is not JSON was classified UNKNOWN.
C2_Witness ==
    /\ PushStatusError
    /\ wire.value.response.status_code = 418
    /\ wire.value.response.body = NotJson
    /\ ~result.raised
    /\ result.value.exception.cls = "UnknownError"
    /\ result.value.exception.code = "UNKNOWN"

\* C3 as stated: outcome exclusivity.  Every FCMResponse produced by
\* handle_response for a 2xx response with a JSON object body, or by
\* handle_error, has exactly one of message_id and exception non-null.
C3_OutcomeExclusivity ==
    (/\ pc = "done"
     /\ op = "push"
     /\ wire # Nothing
     /\ wire.raised \/ wire.value.body.json = "object"
     /\ ~result.raised) =>
        (result.value.message_id # None) # (result.value.exception # NoException)

\* A batch send whose request was sent and whose call returned a response.
BatchReturned ==
    /\ pc = "done"
    /\ op = "multicast"
    /\ wire # Nothing
    /\ ~result.raised

\* Outcome i of a batch response is the outcome of part i of the multipart
\* body: a failure iff the part's status code is >= 300, else no exception and
\* the part's `name` as message_id.
DecodedFrom(outcome, part) ==
    IF part.status_code >= 300
    THEN outcome.exception # NoException /\ outcome.message_id = None
    ELSE outcome.exception = NoException /\ outcome.message_id = part.body.name

\* C4 as stated: batch index alignment.  Every FCMBatchResponse returned for a
\* batch of N messages holds exactly N outcomes, and outcome i is the one of
\* message i, both when the batch call returned a multipart body and when it
\* failed as a whole.
C4_BatchIndexAlignment ==
    BatchReturned =>
        /\ Len(result.value.responses) = ntokens
        /\ ~wire.raised =>
               \A i \in 1..ntokens :
                   DecodedFrom(result.value.responses[i], wire.value.parts[i])

\* C5: order preservation in multipart decoding.  Whenever
\* FCMBatchResponseHandler.handle_response returns for a multipart response
\* with k parts, it returns k outcomes and outcome i is decoded from part i: a
\* failure (exception set, message_id null) iff part i's status code is >= 300,
\* otherwise no exception and part i's `name` as message_id.
C5_OrderPreservation ==
    (BatchReturned /\ ~wire.raised) =>
        /\ Len(result.value.responses) = Len(wire.value.parts)
        /\ \A i \in DOMAIN wire.value.parts :
               /\ DecodedFrom(result.value.responses[i], wire.value.parts[i])
               /\ (result.value.responses[i].exception # NoException)
                      <=> (wire.value.parts[i].status_code >= 300)

\* C5 witness: three parts, the second a failure between two successes; the
\* outcomes are A, UnregisteredError, B in that order.
C5_Witness ==
    /\ BatchReturned
    /\ ~wire.raised
    /\ Len(wire.value.parts) = 3
    /\ wire.value.parts[1].status_code = 200
    /\ wire.value.parts[2].status_code = 404
    /\ wire.value.parts[3].status_code = 200
    /\ result.value.responses[1].message_id = "projects/p/messages/A"
    /\ result.value.responses[2].message_id = None
    /\ result.value.responses[2].exception.cls = "UnregisteredError"
    /\ result.value.responses[3].message_id = "projects/p/messages/B"

\* C6: batch count invariant.  Every FCMBatchResponse the client returns has
\* success_count + failure_count = len(responses), and success_count is the
\* number of responses with a message_id and no exception.
C6_BatchCounts ==
    BatchReturned =>
        /\ result.value.success_count + failure_count(result.value)
               = Len(result.value.responses)
        /\ result.value.success_count =
               Cardinality({ i \in DOMAIN result.value.responses :
                               /\ result.value.responses[i].message_id # None
                               /\ result.value.responses[i].exception = NoException })

\* C6 witness: a batch of three with one success, one failure and one 2xx part
\* without `name` counts one success and two failures.
C6_Witness ==
    /\ BatchReturned
    /\ ~wire.raised
    /\ Len(result.value.responses) = 3
    /\ result.value.success_count = 1
    /\ failure_count(result.value) = 2
    /\ \E i \in 1..3 : result.value.responses[i].exception # NoException
    /\ \E i \in 1..3 :
           /\ result.value.responses[i].exception = NoException
           /\ result.value.responses[i].message_id = None

\* C7 as stated: partial-failure semantics.  For every multipart response
\* whose successful parts carry a JSON object, whatever the body of a failed
\* part is (a JSON error object or a body that is not JSON), handle_response
\* returns an
\* FCMBatchResponse with one outcome per part and does not raise.
C7_PartialFailure ==
    ( /\ pc = "done" /\ op = "multicast" /\ wire # Nothing /\ ~wire.raised
      /\ wire.value.content_type = "multipart/mixed"
      /\ wire.value.boundary
      /\ wire.value.parts # <<>>
      /\ \A i \in DOMAIN wire.value.parts :
             wire.value.parts[i].status_code < 300
                 => wire.value.parts[i].body.json = "object" ) =>
        /\ ~result.raised
        /\ Len(result.value.responses) = Len(wire.value.parts)

\* The body gives no usable message: it is not JSON, not an object, has no
\* error object, or its error object has no (or an empty) message.
NoUsableMessage(body) ==
    \/ body.json # "object"
    \/ body.error.kind # "object"
    \/ body.error.message \in { None, "" }

\* C8 as stated: the classifier never throws.  For every HTTP error response,
\* whatever its body is, handle_error returns an FCMResponse carrying a typed
\* error; a body without a usable message yields the synthesized message.
C8_ClassifierNeverThrows ==
    PushStatusError =>
        /\ ~result.raised
        /\ result.value.exception # NoException
        /\ result.value.exception.code \in FcmErrorCode
        /\ NoUsableMessage(wire.value.response.body) =>
               result.value.exception.message = UnexpectedResponseMessage

\* The exceptions of httpx (transport failures and HTTP status errors).
HttpxErrors == RequestErrors \cup { "HTTPStatusError" }

\* C9 as stated: errors of a single send are returned, not raised.  Whenever a
\* transport failure or a non-2xx status occurs during a single send, in the
\* token request of the header preparation or in the FCM request, the call
\* returns an FCMResponse with exception set and raises nothing.
C9_ErrorsReturned ==
    (pc = "done" /\ op = "push") =>
        /\ result.raised => result.value \notin HttpxErrors
        /\ (wire # Nothing /\ wire.raised) =>
               /\ ~result.raised
               /\ result.value.exception # NoException

\* The credentials were valid when the coroutines started and no request was
\* needed: the token from before is still the one in place.
ValidFromStart == token = AccessToken(0) /\ expiry = "future"

\* C10: concurrent token refresh is single-flight.  When coroutines call
\* CredentialManager.get_access_token concurrently while the credentials are
\* not valid and no token request fails, at most one token request is sent,
\* every caller that has returned has returned the token of that request, and
\* once all have returned exactly one request was sent.
C10_SingleFlight ==
    (failures = 0 /\ ~ValidFromStart) =>
        /\ requests <= 1
        /\ \A c \in Callers :
               cpc[c] = "done" => returned[c] = Return(AccessToken(1))
        /\ (\A c \in Callers : cpc[c] = "done") => requests = 1

\* C10 witness: one token request was sent, two callers have returned its
\* token, and a caller that queued on the lock meanwhile has just been woken.
C10_Witness ==
    /\ failures = 0
    /\ requests = 1
    /\ token = AccessToken(1)
    /\ \E c \in Callers : cpc[c] = "waiting" /\ woken = c
    /\ \E c, d \in Callers :
           /\ c # d
           /\ cpc[c] = "done" /\ returned[c] = Return(AccessToken(1))
           /\ cpc[d] = "done" /\ returned[d] = Return(AccessToken(1))

\* A send_each call has handed its result to the caller.
SendEachDone == pc = "done" /\ op = "send_each"

\* C11: positional ordering under concurrent dispatch.  When send_each over
\* messages m_1..m_n returns, responses[i] is the outcome of the task of m_i
\* for every i (a message_id is the name the provider gave m_i), whatever the
\* order in which the tasks ended.
C11_PositionalOrdering ==
    (SendEachDone /\ ~result.raised) =>
        /\ Len(result.value.responses) = ntokens
        /\ \A i \in 1..ntokens :
               /\ ~tasks[i].outcome.raised
                      => result.value.responses[i] = tasks[i].outcome.value
               /\ result.value.responses[i].message_id # None
                      => result.value.responses[i].message_id = ItemNames[i]

\* C11 witness: three messages whose tasks ended in the order 3, 1, 2; the
\* first and the third were accepted and the second was answered UNREGISTERED.
C11_Witness ==
    /\ SendEachDone
    /\ ~result.raised
    /\ completed = << 3, 1, 2 >>
    /\ result.value.responses[1].message_id = ItemNames[1]
    /\ result.value.responses[2].exception # NoException
    /\ result.value.responses[2].exception.cls = "UnregisteredError"
    /\ result.value.responses[3].message_id = ItemNames[3]

\* C12: item isolation under concurrent dispatch.  send_each does not raise;
\* an item whose task raised an exception that is not a typed error has a
\* failure of kind UNKNOWN as its outcome, and every other item has the outcome
\* its task returned.
C12_ItemIsolation ==
    SendEachDone =>
        /\ ~result.raised
        /\ Len(result.value.responses) = ntokens
        /\ \A i \in 1..ntokens :
               IF tasks[i].outcome.raised
               THEN /\ result.value.responses[i].exception # NoException
                    /\ result.value.responses[i].exception.code = "UNKNOWN"
                    /\ result.value.responses[i].message_id = None
               ELSE result.value.responses[i] = tasks[i].outcome.value

\* C12 witness: of three messages the task of the second raised (the body of
\* its 2xx response was not JSON); the batch holds the two accepted messages
\* and one UNKNOWN failure.
C12_Witness ==
    /\ SendEachDone
    /\ ~result.raised
    /\ ntokens = 3
    /\ tasks[2].outcome = Raise("ValueError")
    /\ result.value.responses[2].exception # NoException
    /\ result.value.responses[2].exception.code = "UNKNOWN"
    /\ result.value.responses[1].message_id = ItemNames[1]
    /\ result.value.responses[3].message_id = ItemNames[3]
    /\ result.value.success_count = 2

\* A 2xx answer to a batch request that is not a valid multipart document.
NotMultipart(response) ==
    \/ response.content_type # "multipart/mixed"
    \/ ~response.boundary
    \/ response.parts = <<>>

\* C13: malformed multipart fails loudly.  For every 2xx response to a batch
\* request that is not a valid multipart document (content type not multipart,
\* boundary missing, or no part delimited by the boundary),
\* FCMBatchResponseHandler.handle_response raises ValueError and no
\* FCMBatchResponse is returned.
C13_MalformedMultipartRaises ==
    ( /\ pc = "done" /\ op = "multicast" /\ wire # Nothing /\ ~wire.raised
      /\ NotMultipart(wire.value) ) =>
        result = Raise("ValueError")

\* C13 witness: a multipart/mixed response with a boundary and no part made
\* the batch send raise ValueError.
C13_Witness ==
    /\ pc = "done" /\ op = "multicast"
    /\ wire = Return(MultipartResponse(200, <<>>))
    /\ result = Raise("ValueError")

\* A single send whose FCM request ended with an httpx error.
PushFailed ==
    /\ pc = "done"
    /\ op = "push"
    /\ wire # Nothing
    /\ wire.raised

\* C14: transport failure classification, in this order of tests: a timeout
\* yields DEADLINE_EXCEEDED; otherwise a connection failure yields UNAVAILABLE;
\* otherwise an error without a response yields UNKNOWN, and none of these
\* carries an HTTP response; only an error with a response is classified from
\* that response.  Every outcome returned has exception set and success false.
C14_TransportClassification ==
    PushFailed =>
        IF wire.value.cls # "HTTPStatusError"
        THEN /\ ~result.raised
             /\ result.value.exception # NoException
             /\ ~success(result.value)
             /\ result.value.exception.cause = wire.value
             /\ result.value.exception.http_response = NoResponse
             /\ result.value.exception.code =
                    IF wire.value.cls \in TimeoutExceptions THEN "DEADLINE_EXCEEDED"
                    ELSE IF wire.value.cls = "ConnectError" THEN "UNAVAILABLE"
                    ELSE "UNKNOWN"
        ELSE ~result.raised =>
                 /\ result.value.exception # NoException
                 /\ ~success(result.value)
                 /\ result.value.exception.http_response = wire.value.response

\* C14 witness: a connect timeout, which is a timeout raised while the
\* connection is being established, came back as DeadlineExceededError.
C14_Witness ==
    /\ PushFailed
    /\ wire.value.cls = "ConnectTimeout"
    /\ ~result.raised
    /\ result.value.exception.cls = "DeadlineExceededError"
    /\ result.value.message_id = None

\* A topic call whose request was answered by a 2xx JSON object.
TopicAnswered ==
    /\ pc = "done"
    /\ op = "topic"
    /\ wire # Nothing
    /\ ~wire.raised
    /\ wire.value.body.json = "object"

\* C15: topic result decoding.  For a response whose `results` array has
\* n >= 1 entries, the TopicManagementResponse has failure_count = number of
\* entries with an `error` key, success_count = n - failure_count, and errors =
\* one {index, reason} per failing entry in ascending index order, index being
\* the entry's position counted from 0 and reason its `error` value.
C15_TopicDecoding ==
    (TopicAnswered /\ wire.value.body.has_results /\ wire.value.body.results # <<>>) =>
        LET results == wire.value.body.results
            failing == { i \in DOMAIN results : results[i].has_error }
        IN  /\ ~result.raised
            /\ result.value.failure_count = Cardinality(failing)
            /\ result.value.success_count = Len(results) - Cardinality(failing)
            /\ Len(result.value.errors) = result.value.failure_count
            /\ \A k \in DOMAIN result.value.errors :
                   /\ result.value.errors[k].index + 1 \in failing
                   /\ result.value.errors[k].reason
                          = results[result.value.errors[k].index + 1].error
                   /\ k > 1 => result.value.errors[k - 1].index
                                   < result.value.errors[k].index

\* C15 witness: results [{}, {"error": NOT_FOUND}, {"error": INVALID_ARGUMENT}]
\* decode to one success and the errors (1, NOT_FOUND), (2, INVALID_ARGUMENT).
C15_Witness ==
    /\ TopicAnswered
    /\ wire.value.body.results =
           << TopicOk, TopicError("NOT_FOUND"), TopicError("INVALID_ARGUMENT") >>
    /\ ~result.raised
    /\ result.value.success_count = 1
    /\ result.value.failure_count = 2
    /\ result.value.errors = << [ index |-> 1, reason |-> "NOT_FOUND" ],
                                [ index |-> 2, reason |-> "INVALID_ARGUMENT" ] >>

\* C16 as stated: topic totals.  Every TopicManagementResponse returned by a
\* topic call that submitted N tokens has success_count + failure_count = N,
\* when it is built from a results array and when the request failed and the
\* response carries an exception.
C16_TopicTotals ==
    (pc = "done" /\ op = "topic" /\ wire # Nothing /\ ~result.raised) =>
        result.value.success_count + result.value.failure_count = ntokens

\* C17: topic protocol violation.  Building a TopicManagementResponse from a
\* JSON object without a `results` key, or with an empty `results`, raises
\* ValueError; no result with zero counts is returned.
C17_TopicProtocolViolation ==
    ( /\ TopicAnswered
      /\ (~wire.value.body.has_results \/ wire.value.body.results = <<>>) ) =>
        result = Raise("ValueError")

\* C17 witness: the body {"results": []} made the topic call raise ValueError.
C17_Witness ==
    /\ TopicAnswered
    /\ wire.value.body = TopicResults(<<>>)
    /\ result = Raise("ValueError")

\* The push_multicast call in progress was rejected by the length check: it
\* has raised ValueError without assembling a payload, preparing headers or
\* sending the batch request.
RejectedByLimit ==
    /\ pc = "done"
    /\ result = Raise("ValueError")
    /\ assembled = 0
    /\ prepared = 0
    /\ wire = Nothing

\* C18: the batch limit is checked first.  push_multicast with more than 500
\* device tokens raises ValueError before any payload is assembled and before
\* any token request or FCM request is sent, whether or not the message has
\* content; a batch of 500 tokens or fewer is never rejected by this check.
C18_BatchLimitFirst ==
    op = "multicast" =>
        /\ ntokens > 500 => RejectedByLimit
        /\ ntokens <= 500 => assembled >= 1

\* C18 witness: 501 tokens, credentials that are not valid and a message with
\* content: ValueError, nothing assembled, no token request, nothing sent.
C18_Witness ==
    /\ op = "multicast"
    /\ ntokens = 501
    /\ payload
    /\ ~credsValid
    /\ RejectedByLimit

\* C20 as stated: success path with an unparseable body.  When handle_response
\* is given a 2xx response whose body is not JSON, the single send returns a
\* typed failure of kind UNKNOWN and raises no parsing exception.
C20_UnparseableSuccessBody ==
    ( /\ pc = "done" /\ op = "push" /\ wire # Nothing /\ ~wire.raised
      /\ wire.value.body.json = "invalid" ) =>
        /\ ~result.raised
        /\ result.value.exception # NoException
        /\ result.value.exception.code = "UNKNOWN"

\* The first details entry with the FcmError discriminator carries an errorCode
\* of the provider table: the provider classifier yields a refined error.
ProviderApplies(body) ==
    LET details == DetailsOf(body)
        fcm == { i \in DOMAIN details : details[i].type = FcmErrorType }
    IN  /\ fcm # {}
        /\ (CHOOSE i \in fcm : \A j \in fcm : i <= j) \in ProviderEntries(details)

\* The body's error object has a `status` key.
HasStatusField(body) ==
    /\ body.json = "object"
    /\ body.error.kind = "object"
    /\ body.error.status # None

\* The kind a `status` value resolves to through the enumeration of kinds.
KindOfStatus(status) ==
    IF status \in FcmErrorCode THEN status ELSE "UNKNOWN"

\* C21: body status overrides the HTTP status.  For every HTTP status error
\* whose body has a `status` field and to which no provider error applies, the
\* returned error's kind is resolved from the status value alone: a recognized
\* string gives its kind, anything else UNKNOWN, whatever the numeric HTTP
\* status is; so the numeric table decides only when `status` is absent.
C21_BodyStatusOverrides ==
    ( /\ PushStatusError
      /\ HasStatusField(wire.value.response.body)
      /\ ~ProviderApplies(wire.value.response.body) ) =>
        LET kind == KindOfStatus(wire.value.response.body.error.status)
        IN  /\ ~result.raised
            /\ result.value.exception.code = kind
            /\ result.value.exception.cls = ERROR_CODE_TO_EXCEPTION_TYPE[kind]

\* C21 witness: a 404 response whose body says status BOGUS was classified
\* UNKNOWN, although the numeric table maps 404 to NOT_FOUND.
C21_Witness ==
    /\ PushStatusError
    /\ wire.value.response.status_code = 404
    /\ HasStatusField(wire.value.response.body)
    /\ wire.value.response.body.error.status = "BOGUS"
    /\ ~ProviderApplies(wire.value.response.body)
    /\ ~result.raised
    /\ result.value.exception.code = "UNKNOWN"
    /\ result.value.exception.cls = "UnknownError"

\* The kind status-code classification gives for a response: the body's status
\* value resolved through the kinds when the key is there, the numeric table
\* otherwise.
StatusCodeKind(response) ==
    IF HasStatusField(response.body)
    THEN KindOfStatus(response.body.error.status)
    ELSE TableKind(response.status_code)

\* C22: provider fallback.  For every HTTP status error whose details have no
\* FcmError entry, or whose first FcmError entry has no errorCode or one outside
\* the provider table, the provider classifier yields nothing and the returned
\* outcome's error is exactly the error of status-code classification for that
\* response: its kind is the status-derived one, never a refined one, and it
\* carries the status error as cause and the response as http_response
\* (wherever status-code classification returns an error at all).
C22_ProviderFallback ==
    (PushStatusError /\ ~ProviderApplies(wire.value.response.body)) =>
        LET provider == _handle_fcm_error(wire.value)
            classified == _get_error_by_status_code(wire.value)
            kind == StatusCodeKind(wire.value.response)
        IN  ~classified.raised =>
                /\ provider = Return(NoException)
                /\ ~result.raised
                /\ result.value.message_id = None
                /\ result.value.exception = classified.value
                /\ result.value.exception.code = kind
                /\ result.value.exception.cls = ERROR_CODE_TO_EXCEPTION_TYPE[kind]
                /\ result.value.exception.cause = wire.value
                /\ result.value.exception.http_response = wire.value.response

\* C22 witness: a 404 response without `status` whose details hold an FcmError
\* entry with an errorCode outside the provider table, followed by an FcmError
\* entry UNREGISTERED, was classified NOT_FOUND by the numeric table.
C22_Witness ==
    /\ PushStatusError
    /\ wire.value.response.status_code = 404
    /\ wire.value.response.body.json = "object"
    /\ wire.value.response.body.error.kind = "object"
    /\ wire.value.response.body.error.status = None
    /\ Len(wire.value.response.body.error.details) = 2
    /\ wire.value.response.body.error.details[1] =
           [ type |-> FcmErrorType, errorCode |-> "INVALID_ARGUMENT" ]
    /\ wire.value.response.body.error.details[2] =
           [ type |-> FcmErrorType, errorCode |-> "UNREGISTERED" ]
    /\ ~result.raised
    /\ result.value.exception.cls = "NotFoundError"

\* The error of a failure outcome was derived from an HTTP error response with
\* the given status code: its cause is an HTTPStatusError whose response has
\* that status code, and http_response is that same response.
FromHttpResponse(exception, status_code) ==
    /\ exception # NoException
    /\ exception.cause.cls = "HTTPStatusError"
    /\ exception.cause.response # NoResponse
    /\ exception.cause.response.status_code = status_code
    /\ exception.http_response = exception.cause.response

\* The error of a failure outcome was derived from a transport error without a
\* response: its cause is that error and http_response is null.
FromTransportError(exception, error) ==
    /\ exception # NoException
    /\ exception.cause = error
    /\ exception.http_response = NoResponse

\* A push or push_multicast call whose request was sent and which returned.
SendReturned ==
    /\ pc = "done"
    /\ op \in { "push", "multicast" }
    /\ wire # Nothing
    /\ ~result.raised

\* C23: failure provenance.  In every outcome returned by push or
\* push_multicast: the error of a request that failed with a non-2xx status
\* and the error of a multipart part with status >= 300 have cause set to an
\* HTTPStatusError whose response has that status code, and http_response set
\* to that same response; the error of a request that failed with a transport
\* error has cause set to that error and http_response null.
C23_FailureProvenance ==
    SendReturned =>
        LET first == IF op = "push" THEN result.value ELSE result.value.responses[1]
        IN  /\ (wire.raised /\ wire.value.cls = "HTTPStatusError") =>
                   /\ FromHttpResponse(first.exception, wire.value.response.status_code)
                   /\ first.exception.cause = wire.value
            /\ (wire.raised /\ wire.value.cls # "HTTPStatusError") =>
                   FromTransportError(first.exception, wire.value)
            /\ (op = "multicast" /\ ~wire.raised) =>
                   \A i \in DOMAIN result.value.responses :
                       wire.value.parts[i].status_code >= 300 =>
                           FromHttpResponse(result.value.responses[i].exception,
                                            wire.value.parts[i].status_code)

\* C23 witness: a batch whose first part succeeded and whose second part has
\* status 404 with a provider error came back with a second outcome whose
\* cause is an HTTPStatusError carrying a 404 response.
C23_Witness ==
    /\ SendReturned
    /\ op = "multicast"
    /\ ~wire.raised
    /\ Len(result.value.responses) = 2
    /\ wire.value.parts[1].status_code = 200
    /\ wire.value.parts[2].status_code = 404
    /\ result.value.responses[1].exception = NoException
    /\ result.value.responses[2].exception # NoException
    /\ result.value.responses[2].exception.cls = "UnregisteredError"
    /\ result.value.responses[2].exception.cause.cls = "HTTPStatusError"
    /\ result.value.responses[2].exception.cause.response.status_code = 404
    /\ result.value.responses[2].exception.http_response.status_code = 404

\* C24 as stated: an empty payload is rejected.  For every message without
\* content (data, notification, android, webpush, apns and fcm_options all
\* empty or None), whichever of token, topic and condition are set,
\* assemble_push_notification raises ValueError, so that push / push_multicast
\* end there and go on neither to the headers nor to the request.
C24_EmptyPayloadRejected ==
    (op \in { "push", "multicast" } /\ msg # Nothing /\ ~HasPayload(msg)) =>
        /\ pc = "done"
        /\ result = Raise("ValueError")

\* The entries of a dict or of a dataclass instance.
EntriesOf(value) ==
    IF value.kind = "dict" THEN value.items
    ELSE IF value.kind = "dataclass" THEN value.fields
    ELSE NoItems

RECURSIVE NoNullEntries(_)

\* No dict inside the value, at any depth, has an entry whose value is None,
\* [] or {}, and no dataclass instance is left.
NoNullEntries(value) ==
    CASE value.kind = "dict" ->
             \A k \in DOMAIN value.items :
                 /\ value.items[k] \notin { PyNone, EmptyList, EmptyDict }
                 /\ NoNullEntries(value.items[k])
      [] value.kind = "list" ->
             \A i \in DOMAIN value.elems : NoNullEntries(value.elems[i])
      [] value.kind = "dataclass" -> FALSE
      [] OTHER -> TRUE

RECURSIVE HasScalar(_)

\* Some entry of the dict or dataclass instance, at any depth, is a scalar.
HasScalar(value) ==
    \E k \in DOMAIN EntriesOf(value) :
        \/ EntriesOf(value)[k].kind = "scalar"
        \/ HasScalar(EntriesOf(value)[k])

RECURSIVE ScalarsKept(_, _)

\* Every entry of the argument whose value is a scalar, falsy or not, is an
\* entry of the result with the same value, at every depth of dicts and
\* dataclass instances.
ScalarsKept(argument, cleaned_) ==
    \A k \in DOMAIN EntriesOf(argument) :
        LET value == EntriesOf(argument)[k]
        IN  /\ (value.kind = "scalar" \/ HasScalar(value)) => k \in DOMAIN cleaned_.items
            /\ value.kind = "scalar" => cleaned_.items[k] = value
            /\ HasScalar(value) => ScalarsKept(value, cleaned_.items[k])

ParentCode(cls) ==
    CASE cls = "ThirdPartyAuthError" -> "UNAUTHENTICATED"
      [] cls = "QuotaExceededError" -> "RESOURCE_EXHAUSTED"
      [] cls = "SenderIdMismatchError" -> "PERMISSION_DENIED"
      [] cls = "UnregisteredError" -> "NOT_FOUND"

\* The outcomes push or push_multicast returned.
ReturnedOutcomes ==
    IF ~SendReturned THEN {}
    ELSE IF op = "push" THEN { result.value }
    ELSE { result.value.responses[i] : i \in DOMAIN result.value.responses }

\* C26: refined errors keep the parent's wire code.  Every
\* ThirdPartyAuthError, QuotaExceededError, SenderIdMismatchError and
\* UnregisteredError in an outcome of push or push_multicast has code
\* UNAUTHENTICATED, RESOURCE_EXHAUSTED, PERMISSION_DENIED and NOT_FOUND
\* respectively, whatever the HTTP status code and the body's status string
\* are; and every status error to which a provider error applies comes back
\* as such an error.
C26_RefinedKeepParentCode ==
    /\ \A outcome \in ReturnedOutcomes :
           (outcome.exception # NoException /\ outcome.exception.cls \in RefinedClasses) =>
               outcome.exception.code = ParentCode(outcome.exception.cls)
    /\ (PushStatusError /\ ProviderApplies(wire.value.response.body)) =>
           /\ ~result.raised
           /\ result.value.exception.cls \in RefinedClasses
           /\ result.value.exception.code = ParentCode(result.value.exception.cls)

\* C26 witness: a 500 response whose body says status OUT_OF_RANGE and names
\* the provider error QUOTA_EXCEEDED came back as a QuotaExceededError with
\* code RESOURCE_EXHAUSTED.
C26_Witness ==
    /\ PushStatusError
    /\ wire.value.response.status_code = 500
    /\ HasStatusField(wire.value.response.body)
    /\ wire.value.response.body.error.status = "OUT_OF_RANGE"
    /\ ProviderApplies(wire.value.response.body)
    /\ ~result.raised
    /\ result.value.exception.cls = "QuotaExceededError"
    /\ result.value.exception.code = "RESOURCE_EXHAUSTED"

\* C27 as stated: token refresh is all-or-nothing.  Whenever the refresh inside
\* CredentialManager.get_access_token fails (the token request raises, or the
\* token response lacks access_token or expires_in), credentials.token and
\* credentials.expiry are both what they were before; they change only in a
\* refresh that succeeds, and then together.
C27_RefreshAllOrNothing ==
    [][ /\ failures' # failures => (token' = token /\ expiry' = expiry)
        /\ (token' # token \/ expiry' # expiry) =>
               (failures' = failures /\ token' # token /\ expiry' = "future") ]_vars

\* C28: the token lock is always released.  Whenever a
\* CredentialManager.get_access_token call ends, by returning or by raising,
\* the token lock is free, and the lock is held only while some call is
\* inside its token request; under fair scheduling and token requests that
\* terminate, every coroutine waiting on the lock eventually completes its
\* call, also after a refresh that failed.
C28_LockAlwaysReleased ==
    /\ [][ \A c \in Callers : (cpc[c] # "done" /\ cpc'[c] = "done") => ~locked' ]_vars
    /\ [](locked <=> \E c \in Callers : cpc[c] = "posting")
    /\ \A c \in Callers : (cpc[c] \in { "waiting", "posting" }) ~> (cpc[c] = "done")

\* C28 witness: a call has ended by raising after its refresh failed, the lock
\* is free and the first coroutine of the queue has been woken.
C28_Witness ==
    /\ failures = 1
    /\ ~locked
    /\ \E c \in Callers : cpc[c] = "done" /\ returned[c].raised
    /\ \E c \in Callers : cpc[c] = "waiting" /\ woken = c /\ waiters # <<>>

\* C29 as stated: when several coroutines call
\* AsyncClientBase._get_access_token (or AsyncFirebaseClient._get_access_token)
\* concurrently while the credentials are not valid, at most one token request
\* is sent to the token endpoint (no request failing, so that none is a retry).
C29_OneTokenRequest ==
    (failures = 0 /\ ~ValidFromStart) =>
        /\ requests <= 1
        /\ Cardinality({ c \in Callers : cpc[c] = "posting" }) <= 1

\* A push or push_multicast call is assembling, or has just assembled, the
\* messages of an APNSConfig that has a payload.
AssemblingApns ==
    /\ op \in { "push", "multicast" }
    /\ msg # Nothing
    /\ msg.fields.apns # PyNone
    /\ msg.fields.apns.fields.payload # PyNone

\* C30: payload assembly leaves the caller's APNS config unchanged.  Through
\* all the assemble_push_notification calls of one push or push_multicast, the
\* APNSConfig object the caller passed keeps the field values it was passed
\* with (its payload is still the APNSPayload), no assembly fails on its
\* payload, and every message assembled so far carries the same encoded apns
\* part, whose payload is the encoded aps dict.
C30_ApnsConfigUnchanged ==
    AssemblingApns =>
        /\ heap = CallerObject(msg.fields.apns)
        /\ heap["apns"].fields.payload.kind = "dataclass"
        /\ heap["apns"].fields.payload.cls = "APNSPayload"
        /\ pc = "done" => result.value \notin { "AttributeError", "TypeError" }
        /\ pc # "done" =>
               /\ Cardinality(encoded) = 1
               /\ \A apns \in encoded :
                      apns.items["payload"] =
                          cleanup_firebase_message(
                              aps_encoder(msg.fields.apns.fields.payload.fields.aps))

\* C30 witness: the third message of a push_multicast call with an APNSConfig
\* whose Aps has an ApsAlert has been assembled; the caller's object is as it
\* was passed and the three messages share one encoded apns part.
C30_Witness ==
    /\ AssemblingApns
    /\ op = "multicast"
    /\ pc = "headers"
    /\ assembled = 3
    /\ msg.fields.token = DeviceToken(3)
    /\ msg.fields.apns.fields.payload.fields.aps.fields.alert.kind = "dataclass"
    /\ heap = CallerObject(msg.fields.apns)
    /\ Cardinality(encoded) = 1

====
